---- MODULE Spec2Model ----
(***************************************************************************)
(* Geospatial trend aggregation engine of the dashboard (src/js/map.js):   *)
(* geometry extraction, grid index, point-in-polygon test, period and      *)
(* category classification, trend computation and its module-level cache.  *)
(*                                                                         *)
(* Units.  Coordinates are integers in micro-degrees (1e-6 degree), so     *)
(* the grid size 0.01 is 10000, the on-edge tolerance 0.00001 is 10 and    *)
(* the cross-product tolerance 0.00001 (degree^2) is 10000000.  All        *)
(* coordinate arithmetic is exact.  Timestamps are calendar months         *)
(* [y, m]; an instant is the month count y * 12 + m.                       *)
(***************************************************************************)
EXTENDS Integers, Sequences, FiniteSets, TLC

VARIABLES
  communityBounds,  \* calculationCache.communityBounds : key -> bounding box
  results,          \* calculationCache.results : the last mapping stored
  history,          \* the calculateSafetyTrends calls made, with what each returned
  projection,       \* the last getSafetyTrendsForTimeRange call and its result
  clock,            \* the wall clock read by new Date(), in months
  probe,            \* the last application of a pure helper and its result
  appState,         \* window.appState : mappings and crime data kept per window
  map,              \* the Leaflet map object: layers, highlight, shown mapping
  state,            \* the state object of the search control (address-entry.js)
  dom,              \* the time-range select, the search input, the listeners
  timers,           \* the timeouts set and not yet fired or cleared
  pending,          \* the loadCrimeData calls waiting for their files
  dateNow,          \* Date.now(), in milliseconds
  log               \* the loads, cache clearings, input events and searches made

uiVars == <<state, dom, timers, pending, dateNow, log>>
vars == <<communityBounds, results, history, projection, clock, probe, appState, map,
          state, dom, timers, pending, dateNow, log>>

(***************************************************************************)
(* Bounds of the model.                                                    *)
(***************************************************************************)
MaxCalls == 2
MaxVerts == 4
MaxCount == 8
MaxClockTicks == 1
MaxSelected == 2
MaxMembers == 2
MaxPoints == 3
MaxSearches == 2
MaxLoads == 2
MaxClears == 1
MaxInputs == 3
MaxTicks == 4

(***************************************************************************)
(* Program constants.                                                      *)
(***************************************************************************)
GridSize == 10000
Tolerance == 10
CrossTolerance == 10000000
AnalysisYear == 2025

Min(a, b) == IF a < b THEN a ELSE b
Max(a, b) == IF a > b THEN a ELSE b
Abs(a) == IF a < 0 THEN -a ELSE a

Reverse(s) == [i \in 1..Len(s) |-> s[Len(s) + 1 - i]]

\* Op applied to the value of v, v being evaluated once.
With(v, Op(_)) == CHOOSE y \in {Op(x) : x \in {v}} : TRUE

(***************************************************************************)
(* Point-in-polygon tester.  A polygon is a sequence of <<lat, lon>>.      *)
(***************************************************************************)
isPointOnLineSegment(px, py, x1, y1, x2, y2) ==
  IF \/ px < Min(x1, x2) - Tolerance
     \/ px > Max(x1, x2) + Tolerance
     \/ py < Min(y1, y2) - Tolerance
     \/ py > Max(y1, y2) + Tolerance
  THEN FALSE
  ELSE LET crossProduct == (px - x1) * (y2 - y1) - (py - y1) * (x2 - x1)
       IN  Abs(crossProduct) < CrossTolerance

\* A crossing counted in one direction only (&& written for !=).
RayIntersectsOneWay(lat, lon, xi, yi, xj, yj) ==
  /\ (yi > lat) /\ ~(yj > lat)
  /\ (lon - xi) * (yj - yi) > (xj - xi) * (lat - yi)

\* lon < (xj - xi) * (lat - yi) / (yj - yi) + xi, cleared of the division:
\* the first conjunct makes yj - yi non-zero.
RayIntersects(lat, lon, xi, yi, xj, yj) ==
  /\ (yi > lat) # (yj > lat)
  /\ IF yj - yi > 0
     THEN (lon - xi) * (yj - yi) < (xj - xi) * (lat - yi)
     ELSE (lon - xi) * (yj - yi) > (xj - xi) * (lat - yi)

RECURSIVE PipLoop(_, _, _, _, _)
PipLoop(lat, lon, polygon, i, inside) ==
  IF i > Len(polygon) THEN inside
  ELSE LET j  == IF i = 1 THEN Len(polygon) ELSE i - 1
           xi == polygon[i][2]
           yi == polygon[i][1]
           xj == polygon[j][2]
           yj == polygon[j][1]
       IN  IF isPointOnLineSegment(lat, lon, yi, xi, yj, xj) THEN TRUE
           ELSE PipLoop(lat, lon, polygon, i + 1,
                        IF RayIntersects(lat, lon, xi, yi, xj, yj)
                        THEN ~inside ELSE inside)

RECURSIVE RayLoop(_, _, _, _, _)
RayLoop(lat, lon, polygon, i, inside) ==
  IF i > Len(polygon) THEN inside
  ELSE LET j == IF i = 1 THEN Len(polygon) ELSE i - 1
       IN  RayLoop(lat, lon, polygon, i + 1,
                   IF RayIntersects(lat, lon, polygon[i][2], polygon[i][1],
                                    polygon[j][2], polygon[j][1])
                   THEN ~inside ELSE inside)

\* The tester without its on-edge pre-check: ray casting alone.
pointInPolygonNoEdge(lat, lon, polygon) ==
  IF Len(polygon) < 3 THEN FALSE ELSE RayLoop(lat, lon, polygon, 1, FALSE)

pointInPolygon(lat, lon, polygon) ==
  IF Len(polygon) < 3 THEN FALSE ELSE PipLoop(lat, lon, polygon, 1, FALSE)


(***************************************************************************)
(* Geometry extractor.  A geometry is NoGeometry (absent) or a record      *)
(* [type, coordinates, geometries]; a GeoJSON position is <<lon, lat>>.    *)
(***************************************************************************)
NoGeometry == [type |-> "absent", coordinates |-> <<>>, geometries |-> <<>>]

\* The positions of a ring pushed as stored, <<lon, lat>>.
RingCoordinatesUnswapped(outerRing) ==
  LET ok == SelectSeq(outerRing, LAMBDA coord : Len(coord) >= 2)
  IN  [i \in 1..Len(ok) |-> <<ok[i][1], ok[i][2]>>]

\* outerRing.forEach: positions with at least two numbers, as <<lat, lon>>
RingCoordinates(outerRing) ==
  LET ok == SelectSeq(outerRing, LAMBDA coord : Len(coord) >= 2)
  IN  [i \in 1..Len(ok) |-> <<ok[i][2], ok[i][1]>>]

RECURSIVE MultiPolygonCoordinates(_, _)
MultiPolygonCoordinates(polygons, i) ==
  IF i > Len(polygons) THEN <<>>
  ELSE (IF Len(polygons[i]) > 0 THEN RingCoordinates(polygons[i][1]) ELSE <<>>)
       \o MultiPolygonCoordinates(polygons, i + 1)

RECURSIVE getPolygonCoordinates(_)
RECURSIVE CollectionCoordinates(_, _)
CollectionCoordinates(geometries, i) ==
  IF i > Len(geometries) THEN <<>>
  ELSE getPolygonCoordinates(geometries[i]) \o CollectionCoordinates(geometries, i + 1)

getPolygonCoordinates(geometry) ==
  IF geometry = NoGeometry THEN <<>>
  ELSE CASE geometry.type = "Polygon" ->
              IF Len(geometry.coordinates) > 0
              THEN RingCoordinates(geometry.coordinates[1]) ELSE <<>>
         [] geometry.type = "MultiPolygon" ->
              MultiPolygonCoordinates(geometry.coordinates, 1)
         [] geometry.type = "GeometryCollection" ->
              CollectionCoordinates(geometry.geometries, 1)
         [] OTHER -> <<>>

(***************************************************************************)
(* Bounding box and grid index.  A crime is a record                       *)
(* [coordinates, dispatch_date_time, text_general_code], coordinates being *)
(* <<lon, lat>>; an index maps a cell <<gridX, gridY>> to its crimes.      *)
(***************************************************************************)
Least(S) == CHOOSE m \in S : \A x \in S : m <= x

Range(s) == {s[i] : i \in DOMAIN s}
Greatest(S) == CHOOSE m \in S : \A x \in S : m >= x

\* The box of a vertex list of at least one vertex (the code returns null
\* below 3 vertices, and its one caller returns [] on null).
BoundsOf(coords) ==
  [minLat |-> Least({coords[i][1] : i \in DOMAIN coords}),
   maxLat |-> Greatest({coords[i][1] : i \in DOMAIN coords}),
   minLon |-> Least({coords[i][2] : i \in DOMAIN coords}),
   maxLon |-> Greatest({coords[i][2] : i \in DOMAIN coords})]

calculateCommunityBounds(community) ==
  With(getPolygonCoordinates(community.geometry), LAMBDA coords : BoundsOf(coords))

isPointInBounds(lat, lon, bounds) ==
  /\ lat >= bounds.minLat /\ lat <= bounds.maxLat
  /\ lon >= bounds.minLon /\ lon <= bounds.maxLon

\* Math.floor(v / gridSize): \div rounds toward minus infinity.
GridCell(v, gridSize) == v \div gridSize

\* The cell a crime is pushed to.
CellKey(crime, gridSize) ==
  <<GridCell(crime.coordinates[1], gridSize), GridCell(crime.coordinates[2], gridSize)>>

\* isNaN(lon) || isNaN(lat)
isNaN(crime) == crime.coordinateKind = "NaN"

\* features.forEach: every crime with two numeric coordinates is appended to
\* the list of its cell, so each list is in the order of features.
createSpatialIndex(features, gridSize) ==
  With(SelectSeq(features, LAMBDA crime : Len(crime.coordinates) >= 2 /\ ~isNaN(crime)),
       LAMBDA indexed :
         [key \in {CellKey(indexed[i], gridSize) : i \in DOMAIN indexed} |->
            SelectSeq(indexed, LAMBDA crime : CellKey(crime, gridSize) = key)])

\* The cells startX..endX x startY..endY in the order of the two nested loops.
RECURSIVE CellLoop(_, _, _, _, _, _, _)
CellLoop(spatialIndex, bounds, gridSize, startX, startY, endY, k) ==
  LET ny == endY - startY + 1
      x  == startX + (k \div ny)
      y  == startY + (k % ny)
      endX == GridCell(bounds.maxLon, gridSize)
  IN  IF x > endX THEN <<>>
      ELSE (IF <<x, y>> \in DOMAIN spatialIndex
            THEN SelectSeq(spatialIndex[<<x, y>>],
                   LAMBDA crime : isPointInBounds(crime.coordinates[2],
                                                  crime.coordinates[1], bounds))
            ELSE <<>>)
           \o CellLoop(spatialIndex, bounds, gridSize, startX, startY, endY, k + 1)

\* community.id || community.properties.name ("" stands for an absent value)
BoundsCacheKey(community) ==
  IF community.id # "" THEN community.id ELSE community.name

\* The two nested loops over the cells the box covers.
CrimesInBounds(spatialIndex, bounds, gridSize) ==
  CellLoop(spatialIndex, bounds, gridSize, GridCell(bounds.minLon, gridSize),
           GridCell(bounds.minLat, gridSize), GridCell(bounds.maxLat, gridSize), 0)

\* Returns the candidate crimes and the bounding-box cache after the call.
\* spatialIndex and cache are values; gridSize is left to its default.
getCrimesInCommunityBounds(community, spatialIndex, cache) ==
  LET communityId == BoundsCacheKey(community)
  IN  IF communityId \in DOMAIN cache
      THEN [crimes |-> CrimesInBounds(spatialIndex, cache[communityId], GridSize), cache |-> cache]
      ELSE IF Len(getPolygonCoordinates(community.geometry)) < 3
      THEN [crimes |-> <<>>, cache |-> cache]
      ELSE With(calculateCommunityBounds(community),
             LAMBDA bounds :
               [crimes |-> CrimesInBounds(spatialIndex, bounds, GridSize),
                cache  |-> (communityId :> bounds) @@ cache])

(***************************************************************************)
(* Category labels.  A label is the sequence of its characters, so that    *)
(* String.includes is substring search and sort() compares code units.     *)
(***************************************************************************)
\* The characters the labels use, in UTF-16 code-unit order.
CodeUnits ==
  <<" ", "-", "/", "A", "B", "C", "D", "E", "F", "G", "H", "I", "J", "K",
    "L", "M", "N", "O", "P", "Q", "R", "S", "T", "U", "V", "W", "X", "Y",
    "Z", "a", "b", "c", "d", "e", "f", "g", "h", "i", "j", "k", "l", "m",
    "n", "o", "p", "q", "r", "s", "t", "u", "v", "w", "x", "y", "z">>

ViolentCrime ==
  <<"V", "i", "o", "l", "e", "n", "t", " ", "C", "r", "i", "m", "e">>

BurglaryResidential ==
  <<"B", "u", "r", "g", "l", "a", "r", "y", " ", "R", "e", "s", "i", "d",
    "e", "n", "t", "i", "a", "l">>

MotorVehicleTheft ==
  <<"M", "o", "t", "o", "r", " ", "V", "e", "h", "i", "c", "l", "e", " ",
    "T", "h", "e", "f", "t">>

TheftFromVehicle ==
  <<"T", "h", "e", "f", "t", " ", "f", "r", "o", "m", " ", "V", "e", "h",
    "i", "c", "l", "e">>

VandalismCriminalMischief ==
  <<"V", "a", "n", "d", "a", "l", "i", "s", "m", "/", "C", "r", "i", "m",
    "i", "n", "a", "l", " ", "M", "i", "s", "c", "h", "i", "e", "f">>

AggravatedAssault ==
  <<"A", "g", "g", "r", "a", "v", "a", "t", "e", "d", " ", "A", "s", "s",
    "a", "u", "l", "t">>

Thefts ==
  <<"T", "h", "e", "f", "t", "s">>

Theft ==
  <<"T", "h", "e", "f", "t">>

BurglaryResidentialLower ==
  <<"b", "u", "r", "g", "l", "a", "r", "y", " ", "r", "e", "s", "i", "d",
    "e", "n", "t", "i", "a", "l">>

AttemptedMotorVehicleTheft ==
  <<"A", "t", "t", "e", "m", "p", "t", "e", "d", " ", "M", "o", "t", "o",
    "r", " ", "V", "e", "h", "i", "c", "l", "e", " ", "T", "h", "e", "f",
    "t">>


\* String.prototype.includes
Includes(s, t) ==
  \E i \in 0..(Len(s) - Len(t)) : SubSeq(s, i + 1, i + Len(t)) = t

CharCode(c) == CHOOSE i \in DOMAIN CodeUnits : CodeUnits[i] = c

\* a < b in the order Array.prototype.sort() uses for strings
RECURSIVE LabelLess(_, _)
LabelLess(a, b) ==
  IF Len(b) = 0 THEN FALSE
  ELSE IF Len(a) = 0 THEN TRUE
  ELSE IF a[1] = b[1] THEN LabelLess(Tail(a), Tail(b))
  ELSE CharCode(a[1]) < CharCode(b[1])

otherSpecificTypes ==
  <<BurglaryResidential, MotorVehicleTheft, TheftFromVehicle, VandalismCriminalMischief>>

\* A category matched by equality with the label instead of containment.
TypeMatchesExact(crimeDescription, type) ==
  IF type = ViolentCrime
  THEN ~\E k \in DOMAIN otherSpecificTypes : crimeDescription = otherSpecificTypes[k]
  ELSE crimeDescription = type

\* One round of the loop over selectedCrimeTypes.
TypeMatches(crimeDescription, type) ==
  IF type = ViolentCrime
  THEN ~\E k \in DOMAIN otherSpecificTypes :
          Includes(crimeDescription, otherSpecificTypes[k])
  ELSE Includes(crimeDescription, type)

\* selectedCrimeTypes is a sequence of labels; null is the empty sequence
\* (the code treats the two alike).
isCrimeTypeSelected(crime, selectedCrimeTypes) ==
  IF Len(selectedCrimeTypes) = 0 THEN TRUE
  ELSE \E k \in DOMAIN selectedCrimeTypes :
         TypeMatches(crime.text_general_code, selectedCrimeTypes[k])

(***************************************************************************)
(* Period classifier.  dispatch_date_time is a record [text, y, m]: text   *)
(* is "" for a missing value, "garbage" for a string Date cannot parse and *)
(* "date" for a timestamp in month m (0..11) of year y.                    *)
(***************************************************************************)
NoDate == [text |-> "", y |-> 0, m |-> 0]
BadDate == [text |-> "garbage", y |-> 0, m |-> 0]
DateOf(y, m) == [text |-> "date", y |-> y, m |-> m]

Instant(d) == d.y * 12 + d.m

\* The calendar-year modes with open-ended windows.
getPeriodTypeOpenEnded(crimeDate, timeRange, dynamicNow) ==
  IF timeRange = "6months"
  THEN LET t == Instant(crimeDate)
       IN  IF t >= dynamicNow - 6 /\ t <= dynamicNow THEN "recent"
           ELSE IF t >= dynamicNow - 12 /\ t < dynamicNow - 6 THEN "previous"
           ELSE "other"
  ELSE IF timeRange = "1year"
  THEN IF crimeDate.y >= 2025 THEN "recent" ELSE "previous"
  ELSE IF timeRange = "2years"
  THEN IF crimeDate.y >= AnalysisYear - 1 THEN "recent" ELSE "previous"
  ELSE "other"

\* dynamicNow is what new Date() returns at this record.
getPeriodType(crimeDate, timeRange, dynamicNow) ==
  IF timeRange = "6months"
  THEN LET sixMonthsAgo    == dynamicNow - 6
           twelveMonthsAgo == dynamicNow - 12
           t == Instant(crimeDate)
       IN  IF t >= sixMonthsAgo /\ t <= dynamicNow THEN "recent"
           ELSE IF t >= twelveMonthsAgo /\ t < sixMonthsAgo THEN "previous"
           ELSE "other"
  ELSE IF timeRange = "1year"
  THEN IF crimeDate.y = 2025 THEN "recent"
       ELSE IF crimeDate.y = 2024 THEN "previous"
       ELSE "other"
  ELSE IF timeRange = "2years"
  THEN LET currentYear == AnalysisYear
       IN  IF crimeDate.y = currentYear \/ crimeDate.y = currentYear - 1 THEN "recent"
           ELSE IF crimeDate.y = currentYear - 2 \/ crimeDate.y = currentYear - 3
                THEN "previous"
           ELSE "other"
  ELSE "other"

\* A record without a usable timestamp taken as a record of now.
CrimePeriodUndatedRecent(crime, timeRange, selectedCrimeTypes, dynamicNow) ==
  IF crime.defect # "" THEN "none"
  ELSE IF ~isCrimeTypeSelected(crime, selectedCrimeTypes) THEN "none"
  ELSE LET dateStr == crime.dispatch_date_time
       IN  IF dateStr.text # "date" THEN "recent"
           ELSE LET periodType == getPeriodType(dateStr, timeRange, dynamicNow)
                IN  IF periodType \in {"recent", "previous"} THEN periodType ELSE "none"

\* The bucket a crime is pushed to by the filtering loop: "recent",
\* "previous" or "none".
CrimePeriod(crime, timeRange, selectedCrimeTypes, dynamicNow) ==
  IF crime.defect # "" THEN "none"   \* crime.properties throws, caught per record
  ELSE IF ~isCrimeTypeSelected(crime, selectedCrimeTypes) THEN "none"
  ELSE LET dateStr == crime.dispatch_date_time
       IN  IF dateStr.text = "" THEN "none"
           ELSE IF dateStr.text # "date" THEN "none"
           ELSE LET periodType == getPeriodType(dateStr, timeRange, dynamicNow)
                IN  IF periodType \in {"recent", "previous"} THEN periodType ELSE "none"

\* One list shared by the two periods: every record of either period.
PeriodCrimesShared(features, timeRange, selectedCrimeTypes, nowAt, period) ==
  LET idx == SelectSeq([i \in 1..Len(features) |-> i],
               LAMBDA i : CrimePeriod(features[i], timeRange, selectedCrimeTypes,
                                      nowAt[i]) \in {"recent", "previous"})
  IN  [k \in 1..Len(idx) |-> features[idx[k]]]

\* nowAt[i] is the wall clock when record i is classified.
PeriodCrimes(features, timeRange, selectedCrimeTypes, nowAt, period) ==
  LET idx == SelectSeq([i \in 1..Len(features) |-> i],
               LAMBDA i : CrimePeriod(features[i], timeRange, selectedCrimeTypes,
                                      nowAt[i]) = period)
  IN  [k \in 1..Len(idx) |-> features[idx[k]]]


(***************************************************************************)
(* Trend aggregator.  A community is a record [id, MAPNAME, name,          *)
(* geometry], "" standing for an absent id or property.  A trend mapping   *)
(* is a function from community identifiers to Trend Records; crimeTypes   *)
(* is the sequence of its [type, count] entries in key order; timeRanges   *)
(* is a function from the window names it holds to their sub-records.      *)
(***************************************************************************)
NoTrends == <<>>

\* Math.round(num / den) for den > 0: the nearest integer, halves upward.
MathRound(num, den) == (2 * num + den) \div (2 * den)

\* Rounding halves away from zero.
ChangePercentHalfAway(recentCount, previousCount) ==
  IF previousCount > 0
  THEN LET num == (recentCount - previousCount) * 100
       IN  Min(100, IF num >= 0 THEN MathRound(num, previousCount)
                    ELSE -MathRound(-num, previousCount))
  ELSE 0

\* A rise from zero reported as the full 100 percent.
ChangePercentFromZero(recentCount, previousCount) ==
  IF previousCount > 0
  THEN Min(100, MathRound((recentCount - previousCount) * 100, previousCount))
  ELSE IF recentCount > 0 THEN 100 ELSE 0

\* Math.min(100, Math.round(changePercent)), changePercent being 0 unless
\* previousCount > 0.  The quotient is exact here; the double-precision
\* value of the code rounds to the same integer for every previousCount < 40.
ChangePercent(recentCount, previousCount) ==
  IF previousCount > 0
  THEN Min(100, MathRound((recentCount - previousCount) * 100, previousCount))
  ELSE Min(100, 0)

RECURSIVE SortLabels(_)
SortLabels(S) ==
  IF S = {} THEN <<>>
  ELSE With(CHOOSE a \in S : \A b \in S \ {a} : LabelLess(a, b),
            LAMBDA least : With(S \ {least}, LAMBDA rest : <<least>> \o SortLabels(rest)))

\* The breakdown counting the crimes without a label under the empty label.
CrimeTypesWithUnlabelled(communityRecentCrimes) ==
  With(SortLabels({communityRecentCrimes[i].text_general_code :
                     i \in DOMAIN communityRecentCrimes}),
    LAMBDA keys :
      [k \in 1..Len(keys) |->
         [type  |-> keys[k],
          count |-> Cardinality({i \in DOMAIN communityRecentCrimes :
                                   communityRecentCrimes[i].text_general_code = keys[k]})]])

\* crimeTypes, then sortedCrimeTypes: the entries in the order the keys were
\* inserted, which is the order an object enumerates keys made of the
\* characters of CodeUnits in (none of them is an array index).
CrimeTypes(communityRecentCrimes) ==
  With(SelectSeq(communityRecentCrimes, LAMBDA crime : crime.text_general_code # <<>>),
    LAMBDA typed :
      With(SortLabels({typed[i].text_general_code : i \in DOMAIN typed}),
        LAMBDA keys :
          [k \in 1..Len(keys) |->
             [type  |-> keys[k],
              count |-> Cardinality({i \in DOMAIN typed :
                                       typed[i].text_general_code = keys[k]})]]))

\* The final point-in-polygon filter over the candidates.
CrimesInCommunity(candidates, communityCoords) ==
  SelectSeq(candidates,
    LAMBDA crime : /\ Len(crime.coordinates) >= 2
                   /\ pointInPolygon(crime.coordinates[2], crime.coordinates[1],
                                     communityCoords))

CommunityName(community) ==
  IF community.MAPNAME # "" THEN community.MAPNAME
  ELSE IF community.name # "" THEN community.name
  ELSE "Unknown Community"

CommunityId(community) ==
  IF community.id # "" THEN community.id ELSE CommunityName(community)

DegenerateTrend(community, timeRange) ==
  [communityId |-> CommunityId(community), communityName |-> CommunityName(community),
   recentCount |-> 0, previousCount |-> 0, changePercent |-> 0,
   crimeTypes |-> <<>>,
   timeRanges |-> ("6months" :> [recent |-> 0, previous |-> 0, changePercent |-> 0])]

\* The record built from the two filtered lists of a community.
TrendOf(community, communityRecentCrimes, communityPreviousCrimes, timeRange, trends) ==
  LET communityId   == CommunityId(community)
      recentCount   == Len(communityRecentCrimes)
      previousCount == Len(communityPreviousCrimes)
      timeRangeResult ==
        [recent |-> recentCount, previous |-> previousCount,
         changePercent |-> ChangePercent(recentCount, previousCount)]
      existingTimeRanges ==
        IF communityId \in DOMAIN trends THEN trends[communityId].timeRanges ELSE <<>>
  IN  [communityId |-> communityId, communityName |-> CommunityName(community),
       recentCount |-> recentCount, previousCount |-> previousCount,
       changePercent |-> ChangePercent(recentCount, previousCount),
       crimeTypes |-> CrimeTypes(communityRecentCrimes),
       timeRanges |-> (timeRange :> timeRangeResult) @@ existingTimeRanges]

\* The round of a boundary of fewer than 3 vertices.
DegenerateStep(community, timeRange, acc) ==
  [trends |-> (CommunityId(community) :> DegenerateTrend(community, timeRange))
              @@ acc.trends,
   cache  |-> acc.cache,
   error  |-> FALSE]

\* community.id || community.properties.name raises a TypeError when the
\* boundary has neither id nor properties.
BoundsCacheKeyThrows(community) == community.id = "" /\ community.defect = "noProperties"

\* One round of communities.features.forEach: acc is [trends, cache, error],
\* and acc and the two indexes are values.  error is set when the round
\* raises: reading community.properties of a null entry, or the cache key
\* of a boundary of at least 3 vertices without id and properties.
CommunityStep(community, recentSpatialIndex, previousSpatialIndex, timeRange, acc) ==
  IF community.defect = "null" THEN [acc EXCEPT !.error = TRUE]
  ELSE
  With(getPolygonCoordinates(community.geometry),
    LAMBDA communityCoords :
      IF Len(communityCoords) < 3
      THEN DegenerateStep(community, timeRange, acc)
      ELSE IF BoundsCacheKeyThrows(community) THEN [acc EXCEPT !.error = TRUE]
      ELSE With(getCrimesInCommunityBounds(community, recentSpatialIndex, acc.cache),
             LAMBDA rq :
               With(getCrimesInCommunityBounds(community, previousSpatialIndex, rq.cache),
                 LAMBDA pq :
                   With(<<CrimesInCommunity(rq.crimes, communityCoords),
                          CrimesInCommunity(pq.crimes, communityCoords)>>,
                     LAMBDA in :
                       [trends |-> (CommunityId(community) :>
                                      TrendOf(community, in[1], in[2], timeRange, acc.trends))
                                   @@ acc.trends,
                        cache  |-> pq.cache,
                        error  |-> FALSE]))))

RECURSIVE CommunityLoop(_, _, _, _, _, _)
CommunityLoop(features, recentSpatialIndex, previousSpatialIndex, timeRange, i, acc) ==
  IF i > Len(features) \/ acc.error THEN acc
  ELSE With(CommunityStep(features[i], recentSpatialIndex, previousSpatialIndex,
                          timeRange, acc),
         LAMBDA next : CommunityLoop(features, recentSpatialIndex, previousSpatialIndex,
                                     timeRange, i + 1, next))

\* An exception raised inside the try block and not caught.
Uncaught(acc) ==
  [trends |-> NoTrends, cache |-> acc.cache, stored |-> FALSE, escaped |-> TRUE]

\* catch (error) { ... return trends; }: the records built so far.
Caught(acc) ==
  [trends |-> acc.trends, cache |-> acc.cache, stored |-> FALSE, escaped |-> FALSE]

\* communities and crimeData are the two features arrays.  Returns the
\* mapping, the bounding-box cache after the call, whether the mapping
\* was stored in calculationCache.results and whether an exception escaped.
calculateSafetyTrends(communities, crimeData, timeRange, selectedCrimeTypes, nowAt, cache) ==
  IF Len(crimeData) = 0
  THEN [trends |-> NoTrends, cache |-> cache, stored |-> FALSE, escaped |-> FALSE]
  ELSE With(<<PeriodCrimes(crimeData, timeRange, selectedCrimeTypes, nowAt, "recent"),
              PeriodCrimes(crimeData, timeRange, selectedCrimeTypes, nowAt, "previous")>>,
         LAMBDA periodCrimes :
           With(<<createSpatialIndex(periodCrimes[1], GridSize),
                  createSpatialIndex(periodCrimes[2], GridSize)>>,
             LAMBDA spatialIndex :
               With(CommunityLoop(communities, spatialIndex[1], spatialIndex[2], timeRange,
                                  1, [trends |-> NoTrends, cache |-> cache, error |-> FALSE]),
                 LAMBDA out :
                   IF out.error THEN Caught(out)
                   ELSE [trends |-> out.trends, cache |-> out.cache, stored |-> TRUE,
                         escaped |-> FALSE])))

\* The two arguments as the caller passes them: a record [shape, features],
\* shape being "FeatureCollection" for an object with a features array,
\* "absent" for null or undefined, "noFeatures" for an object without
\* features and "featuresNotArray" for an object whose features is a
\* non-empty object that is no array.
FeatureCollection(features) == [shape |-> "FeatureCollection", features |-> features]
Absent == [shape |-> "absent", features |-> <<>>]
NoFeatures == [shape |-> "noFeatures", features |-> <<>>]
FeaturesNotArray == [shape |-> "featuresNotArray", features |-> <<>>]

\* The validation at the head of calculateSafetyTrends, then its body.
\* crimeData.features.forEach raises when features is no array.
calculateSafetyTrendsOnInput(communities, crimeData, timeRange, selectedCrimeTypes, nowAt, cache) ==
  IF communities.shape # "FeatureCollection"
  THEN [trends |-> NoTrends, cache |-> cache, stored |-> FALSE, escaped |-> FALSE]
  ELSE IF crimeData.shape \in {"absent", "noFeatures"}
  THEN [trends |-> NoTrends, cache |-> cache, stored |-> FALSE, escaped |-> FALSE]
  ELSE IF crimeData.shape = "featuresNotArray"
  THEN Caught([trends |-> NoTrends, cache |-> cache, error |-> TRUE])
  ELSE calculateSafetyTrends(communities.features, crimeData.features, timeRange,
                             selectedCrimeTypes, nowAt, cache)

(***************************************************************************)
(* Projection.  Its changePercent is not rounded, so in a projected        *)
(* mapping every changePercent is a fraction [num, den] with den > 0.      *)
(***************************************************************************)
Fraction(num, den) == [num |-> num, den |-> den]

ProjectedChange(timeRangeData) ==
  IF timeRangeData.previous > 0
  THEN Fraction((timeRangeData.recent - timeRangeData.previous) * 100,
                timeRangeData.previous)
  ELSE Fraction(0, 1)

getSafetyTrendsForTimeRange(trends, timeRange) ==
  [communityId \in DOMAIN trends |->
     LET trend == trends[communityId]
     IN  IF timeRange \in DOMAIN trend.timeRanges
         THEN LET timeRangeData == trend.timeRanges[timeRange]
              IN  [trend EXCEPT !.changePercent = ProjectedChange(timeRangeData),
                                !.recentCount   = timeRangeData.recent,
                                !.previousCount = timeRangeData.previous]
         ELSE [trend EXCEPT !.changePercent = Fraction(trend.changePercent, 1)]]


(***************************************************************************)
(* The map layers (src/js/map.js 7-78, 157-425 and src/js/main.js 331-425).*)
(* A style keeps the two options the highlight rules set: fillColor and    *)
(* weight.  A community object without a safetyTrend property has          *)
(* Undefined there.  Layer indices are those of the features array, from 0.*)
(***************************************************************************)
STYLES ==
  [default     |-> [fillColor |-> "#409EFF", weight |-> 1],
   highlighted |-> [weight |-> 3],
   increased   |-> [fillColor |-> "#FF0000"],
   decreased   |-> [fillColor |-> "#008000"]]

Undefined == [undefined |-> TRUE]

initMapState ==
  [communityLayersArray |-> <<>>, currentHighlightedIndex |-> -1,
   safetyTrends |-> <<>>, currentTimeRange |-> "6months"]

\* safetyTrend.changePercent > 0 ? STYLES.increased : STYLES.decreased, on
\* community.safetyTrend || { changePercent: 0 }.
TrendStyle(safetyTrend) ==
  LET trend == IF safetyTrend = Undefined THEN [changePercent |-> 0] ELSE safetyTrend
  IN  IF trend.changePercent > 0 THEN STYLES.increased ELSE STYLES.decreased

\* { ...STYLES.default, ...trendStyle, ...STYLES.highlighted }
HighlightStyle(safetyTrend) ==
  [fillColor |-> TrendStyle(safetyTrend).fillColor, weight |-> STYLES.highlighted.weight]

RealName(community, index) ==
  IF community.MAPNAME # "" THEN community.MAPNAME
  ELSE IF community.name # "" THEN community.name
  ELSE "community " \o ToString(index + 1)

LayerId(community, index) ==
  IF community.id # "" THEN community.id ELSE RealName(community, index)

\* The safetyTrend property a community object carries from an earlier display.
CarriedTrend(layersArray, index) ==
  IF \E k \in DOMAIN layersArray : layersArray[k].index = index
  THEN (CHOOSE item \in {layersArray[k] : k \in DOMAIN layersArray} :
          item.index = index).safetyTrend
  ELSE Undefined

RECURSIVE ValidCommunities(_, _, _, _)
ValidCommunities(features, safetyTrends, layersArray, i) ==
  IF i > Len(features) THEN <<>>
  ELSE LET community == features[i]
           communityId == LayerId(community, i - 1)
           rest == ValidCommunities(features, safetyTrends, layersArray, i + 1)
       IN  IF community.geometry.type = "absent" THEN rest
           ELSE << [index |-> i - 1, communityId |-> communityId,
                    id |-> community.id, name |-> community.name,
                    MAPNAME |-> community.MAPNAME,
                    realName |-> RealName(community, i - 1),
                    safetyTrend |-> IF communityId \in DOMAIN safetyTrends
                                    THEN safetyTrends[communityId]
                                    ELSE CarriedTrend(layersArray, i - 1),
                    style |-> STYLES.default] >> \o rest

showCommunitiesOnMap(communities, m, safetyTrends, timeRange) ==
  [m EXCEPT !.safetyTrends = safetyTrends,
            !.currentTimeRange = IF timeRange \in {"6months", "1year", "2years"}
                                 THEN timeRange ELSE "6months",
            !.communityLayersArray =
               ValidCommunities(communities, safetyTrends, m.communityLayersArray, 1)]

resetAllHighlighting(m) ==
  IF m.communityLayersArray = <<>> THEN m
  ELSE [m EXCEPT !.communityLayersArray =
                    [k \in DOMAIN m.communityLayersArray |->
                       [m.communityLayersArray[k] EXCEPT !.style = STYLES.default]],
                 !.currentHighlightedIndex = -1]

highlightAreaByIndex(targetIndex, m) ==
  IF m.communityLayersArray = <<>> \/ targetIndex < 0 THEN m
  ELSE LET cleared == resetAllHighlighting(m)
       IN  IF \E k \in DOMAIN cleared.communityLayersArray :
                cleared.communityLayersArray[k].index = targetIndex
           THEN [cleared EXCEPT
                   !.communityLayersArray =
                      [k \in DOMAIN cleared.communityLayersArray |->
                         LET item == cleared.communityLayersArray[k]
                         IN  IF item.index = targetIndex
                             THEN [item EXCEPT !.style = HighlightStyle(item.safetyTrend)]
                             ELSE item],
                   !.currentHighlightedIndex = targetIndex]
           ELSE cleared

\* processSingleCommunity gives the clicked community the record of the kept
\* mapping of the layer's window, or a record of zeros.
ClickedTrend(safetyTrendsByRange, communityId, timeRange) ==
  LET trends == IF timeRange \in DOMAIN safetyTrendsByRange
                THEN safetyTrendsByRange[timeRange] ELSE <<>>
  IN  IF communityId \in DOMAIN trends THEN trends[communityId]
      ELSE [recentCount |-> 0, previousCount |-> 0, changePercent |-> 0]

\* handleCommunityClick on the layer at position k: the clicked layer is
\* styled, processSingleCommunity replaces community.safetyTrend, the styles
\* of updateCommunityStyleOnMap and highlightAreaByName are overwritten by
\* the closing highlightAreaByIndex(communityIndex), which resets every layer.
handleCommunityClick(k, m, safetyTrendsByRange) ==
  LET item == m.communityLayersArray[k]
      safetyTrend == ClickedTrend(safetyTrendsByRange, item.communityId,
                                  m.currentTimeRange)
      processed == [m EXCEPT !.communityLayersArray[k].safetyTrend = safetyTrend]
  IN  highlightAreaByIndex(item.index, processed)

(***************************************************************************)
(* Inputs of the model.                                                    *)
(***************************************************************************)
TimeRanges == {"6months", "1year", "2years"}

Polygon(ring) == [type |-> "Polygon", coordinates |-> <<ring>>, geometries |-> <<>>]

\* defect is "" for an object with properties, "null" for a null entry of
\* the features array and "noProperties" for an object without properties.
Community(id, MAPNAME, name, geometry) ==
  [id |-> id, MAPNAME |-> MAPNAME, name |-> name, geometry |-> geometry, defect |-> ""]

\* defect as for a community; a crime without geometry has coordinates <<>>.
\* coordinateKind is "number" for two numbers, "NaN" for two values isNaN
\* holds of, and "null" for [null, null], which isNaN, the division and the
\* comparisons all convert to 0: coordinates then holds <<0, 0>>.
Crime(lon, lat, dateStr, label) ==
  [coordinates |-> <<lon, lat>>, coordinateKind |-> "number",
   dispatch_date_time |-> dateStr, text_general_code |-> label, defect |-> ""]

\* Closed rings of <<lon, lat>> positions.
SquareRing ==
  <<<<0, 0>>, <<20000, 0>>, <<20000, 20000>>, <<0, 20000>>, <<0, 0>>>>
ShiftedSquareRing ==
  <<<<10000, 10000>>, <<30000, 10000>>, <<30000, 30000>>, <<10000, 30000>>,
    <<10000, 10000>>>>
TriangleRing ==
  <<<<30000, 0>>, <<50000, 0>>, <<30000, 20000>>, <<30000, 0>>>>
ShortRing == <<<<0, 0>>, <<20000, 0>>>>

Alpha      == Community("alpha", "Alpha", "Alpha", Polygon(SquareRing))
AlphaMoved == Community("alpha", "Alpha", "Alpha", Polygon(ShiftedSquareRing))
Bravo      == Community("bravo", "Bravo", "Bravo", Polygon(ShortRing))
Charlie    == Community("charlie", "Charlie", "Charlie", Polygon(TriangleRing))
Delta      == Community("delta", "Delta", "Delta", NoGeometry)
\* Without id and with MAPNAME only, as in the raw neighborhoods file.
East       == Community("", "East", "", Polygon(SquareRing))
Far        == Community("", "Far", "", Polygon(TriangleRing))
Golf       == Community("golf", "", "Golf",
                [type |-> "Point", coordinates |-> <<>>, geometries |-> <<>>])

CommunityInputs ==
  { <<Alpha, Bravo, Charlie>>, <<AlphaMoved, Delta, East, Golf, Far>> }

CrimeInputs ==
  { <<>>,
    \* three of 2025 and one of 2024 in the square, one of 2023 in the triangle
    << Crime(5000, 5000, DateOf(2025, 2), AggravatedAssault),
       Crime(15000, 5000, DateOf(2025, 0), Thefts),
       Crime(20000, 10000, DateOf(2025, 5), BurglaryResidential),
       Crime(15000, 15000, DateOf(2024, 8), AggravatedAssault),
       Crime(35000, 5000, DateOf(2023, 3), Thefts) >>,
    \* near and on the edges, and records without a usable timestamp
    << Crime(10000, -5, DateOf(2025, 1), Thefts),
       Crime(40000, 10000, DateOf(2025, 3), AggravatedAssault),
       Crime(40100, 10100, DateOf(2024, 10), <<>>),
       Crime(12000, 12000, DateOf(2024, 7), TheftFromVehicle),
       Crime(5000, 5000, NoDate, Thefts),
       Crime(5000, 5000, BadDate, Thefts) >> }

ClockStart == AnalysisYear * 12 + 6

\* recentCount crimes of March 2025 and previousCount crimes of September
\* 2024, all at one place inside the square.
RECURSIVE Copies(_, _)
Copies(crime, n) == IF n = 0 THEN <<>> ELSE <<crime>> \o Copies(crime, n - 1)

CountData(recentCount, previousCount) ==
  Copies(Crime(5000, 5000, DateOf(2025, 2), AggravatedAssault), recentCount)
  \o Copies(Crime(15000, 5000, DateOf(2024, 8), Thefts), previousCount)

\* One crime of each label, all inside the square.
LabelInputs ==
  { << Crime(5000, 5000, DateOf(2025, 2), AggravatedAssault),
       Crime(5000, 6000, DateOf(2025, 3), BurglaryResidential),
       Crime(5000, 7000, DateOf(2024, 3), MotorVehicleTheft),
       Crime(5000, 8000, DateOf(2025, 4), BurglaryResidentialLower),
       Crime(5000, 9000, DateOf(2025, 4), <<>>) >>,
    << Crime(6000, 5000, DateOf(2025, 2), Thefts),
       Crime(6000, 6000, DateOf(2024, 3), TheftFromVehicle),
       Crime(6000, 7000, DateOf(2025, 3), AttemptedMotorVehicleTheft),
       Crime(6000, 8000, DateOf(2024, 4), VandalismCriminalMischief),
       Crime(6000, 9000, DateOf(2024, 4), AggravatedAssault) >> }

Categories == {ViolentCrime, Theft, BurglaryResidential, TheftFromVehicle, Thefts}

SeqsUpTo(S, n) == UNION {[1..k -> S] : k \in 0..n}

\* Vertices <<lat, lon>> and test points of the point-in-polygon runs.
RingVertices ==
  {<<0, 0>>, <<0, 20000>>, <<20000, 20000>>, <<20000, 0>>, <<10000, 10000>>}
TestCoordinates == {-5, 0, 5000, 10000, 20000, 20005}

\* Geometries of the extraction runs: polygons of up to MaxMembers rings (the
\* rings after the first are holes), multi-polygons and collections of up to
\* MaxMembers members, collections of collections, absent and other types.
HoleRing ==
  <<<<5000, 5000>>, <<15000, 5000>>, <<15000, 15000>>, <<5000, 15000>>, <<5000, 5000>>>>
\* A position of one number and a position with an altitude.
RaggedRing == <<<<0, 0>>, <<7>>, <<20000, 0, 12>>, <<0, 20000>>, <<0, 0>>>>
GeometryRings == {SquareRing, ShiftedSquareRing, TriangleRing, HoleRing, RaggedRing}

PointGeometry == [type |-> "Point", coordinates |-> <<>>, geometries |-> <<>>]
LineStringGeometry ==
  [type |-> "LineString", coordinates |-> SquareRing, geometries |-> <<>>]
MultiPolygon(polygons) ==
  [type |-> "MultiPolygon", coordinates |-> polygons, geometries |-> <<>>]
GeometryCollection(geometries) ==
  [type |-> "GeometryCollection", coordinates |-> <<>>, geometries |-> geometries]

PolygonInputs ==
  {[type |-> "Polygon", coordinates |-> rings, geometries |-> <<>>] :
     rings \in SeqsUpTo(GeometryRings, MaxMembers)}
MultiPolygonInputs ==
  {MultiPolygon(polygons) :
     polygons \in SeqsUpTo({<<>>, <<SquareRing>>, <<SquareRing, HoleRing>>,
                            <<TriangleRing>>}, MaxMembers)}
SimpleGeometries ==
  {Polygon(SquareRing),
   [type |-> "Polygon", coordinates |-> <<SquareRing, HoleRing>>, geometries |-> <<>>],
   MultiPolygon(<<<<TriangleRing>>, <<SquareRing, HoleRing>>>>),
   PointGeometry, NoGeometry}
CollectionInputs ==
  {GeometryCollection(geometries) : geometries \in SeqsUpTo(SimpleGeometries, MaxMembers)}
NestedCollectionInputs ==
  {GeometryCollection(geometries) :
     geometries \in SeqsUpTo({Polygon(TriangleRing),
                              GeometryCollection(<<Polygon(SquareRing)>>),
                              GeometryCollection(<<PointGeometry,
                                [type |-> "Polygon", coordinates |-> <<SquareRing, HoleRing>>,
                                 geometries |-> <<>>]>>),
                              GeometryCollection(<<GeometryCollection(
                                <<Polygon(RaggedRing)>>), NoGeometry>>)},
                             MaxMembers)}
GeometryInputs ==
  PolygonInputs \cup MultiPolygonInputs \cup CollectionInputs
  \cup NestedCollectionInputs \cup {NoGeometry, PointGeometry, LineStringGeometry}

\* Points, cell sizes and boxes of the index runs: points on both sides of
\* zero and on cell borders, a point without geometry, a point whose
\* coordinates are not numbers and a point whose coordinates are null.
GridPoint(lon, lat) == Crime(lon, lat, NoDate, <<>>)
NaNPoint  == [GridPoint(0, 0) EXCEPT !.coordinateKind = "NaN"]
NullPoint == [GridPoint(0, 0) EXCEPT !.coordinateKind = "null"]
NoGeometryPoint == [GridPoint(0, 0) EXCEPT !.coordinates = <<>>]
GridPoints ==
  {GridPoint(5000, 5000), GridPoint(-5000, 12000), GridPoint(20000, 10000),
   GridPoint(10000, -1), NoGeometryPoint, NaNPoint, NullPoint}
GridSizes == {GridSize, 7000, 25000}
GridBounds ==
  {[minLat |-> 0, maxLat |-> 20000, minLon |-> 0, maxLon |-> 20000],
   [minLat |-> -10000, maxLat |-> 12000, minLon |-> -5000, maxLon |-> 10000],
   [minLat |-> 5000, maxLat |-> 5000, minLon |-> 5000, maxLon |-> 5000],
   [minLat |-> 30000, maxLat |-> 40000, minLon |-> 30000, maxLon |-> 40000]}

\* Boundaries of several closed, pairwise disjoint rings, and test points on
\* a grid of 5000 over them.
FarSquareRing ==
  <<<<30000, 30000>>, <<40000, 30000>>, <<40000, 40000>>, <<30000, 40000>>,
    <<30000, 30000>>>>
DisjointGeometries ==
  {MultiPolygon(<<<<SquareRing>>, <<TriangleRing>>>>),
   MultiPolygon(<<<<SquareRing, HoleRing>>, <<FarSquareRing>>>>),
   MultiPolygon(<<<<TriangleRing>>, <<FarSquareRing>>, <<SquareRing>>>>),
   GeometryCollection(<<Polygon(FarSquareRing), Polygon(SquareRing)>>)}
MemberCoordinates == {5000 * k : k \in -1..9}

(***************************************************************************)
(* Search control and application (src/js/address-entry.js and            *)
(* src/js/main.js).  Times are milliseconds.  A crime-data cache entry is  *)
(* [data, timestamp]; a waiting load is [id, kind, timeRange, validRange,  *)
(* now, searchTerm], now being the Date.now() it read when it started.     *)
(***************************************************************************)
CRIME_DATA_CACHE_DURATION == 180000
DEBOUNCE_DELAY == 300
VALID_TIME_RANGES == {"6months", "1year", "2years"}

\* String.prototype.toLowerCase on the names, identifiers and search terms
\* of the model, as sequences of characters.
toLowerCase(str) ==
  CASE str \in {"Alpha", "alpha"}     -> <<"a", "l", "p", "h", "a">>
    [] str \in {"Charlie", "charlie"} -> <<"c", "h", "a", "r", "l", "i", "e">>
    [] str \in {"Delta", "delta"}     -> <<"d", "e", "l", "t", "a">>
    [] str \in {"A", "a"}             -> <<"a">>
    [] str \in {"Zulu", "zulu"}       -> <<"z", "u", "l", "u">>
    [] str = ""                       -> <<>>

\* updateMapWithTimeRange up to its requestAnimationFrame.
updateMapWithTimeRange(m, timeRange, safetyTrends) ==
  [m EXCEPT !.safetyTrends = safetyTrends, !.currentTimeRange = timeRange]

\* updateNextBatch: the layers are fewer than batchSize, so one batch styles
\* them all.
updateNextBatch(m) ==
  [m EXCEPT !.communityLayersArray =
     [k \in DOMAIN m.communityLayersArray |->
        LET item == m.communityLayersArray[k]
        IN  [item EXCEPT !.safetyTrend = IF item.communityId \in DOMAIN m.safetyTrends
                                         THEN m.safetyTrends[item.communityId]
                                         ELSE @,
                         !.style = STYLES.default]]]

\* The callbacks updateLayersInBatches schedules, as entries of timers.
BatchFrame == [id |-> -1, due |-> 0, event |-> 0]
HighlightTimeout == [id |-> -2, due |-> 0, event |-> 0]

\* The communities the application holds after processCommunityData: every
\* feature has an id, a name and a geometry.
communitiesData == <<Alpha, Charlie>>

\* The records of the CSV file of a year.
CsvFile(year) ==
  CASE year = 2025 -> << Crime(5000, 5000, DateOf(2025, 2), Thefts),
                         Crime(35000, 5000, DateOf(2025, 4), AggravatedAssault) >>
    [] year = 2024 -> << Crime(15000, 5000, DateOf(2024, 8), Thefts) >>
    [] year = 2023 -> << Crime(5000, 15000, DateOf(2023, 1), Thefts) >>
    [] year = 2022 -> << Crime(36000, 4000, DateOf(2022, 3), Thefts) >>

CRIME_DATA_URLS ==
  [r \in VALID_TIME_RANGES |->
     CASE r = "6months" -> <<2025>>
       [] r = "1year"   -> <<2025, 2024>>
       [] r = "2years"  -> <<2025, 2024, 2023, 2022>>]

\* allFeatures.sort by dispatch_date_time (the timestamps of the files are
\* distinct, so the comparison of the coordinates never decides).
RECURSIVE SortByDate(_)
SortByDate(features) ==
  IF features = <<>> THEN <<>>
  ELSE LET k == CHOOSE i \in DOMAIN features :
                  \A j \in DOMAIN features :
                    Instant(features[i].dispatch_date_time)
                      <= Instant(features[j].dispatch_date_time)
       IN  <<features[k]>>
           \o SortByDate(SubSeq(features, 1, k - 1) \o SubSeq(features, k + 1, Len(features)))

RECURSIVE Concatenate(_)
Concatenate(lists) ==
  IF lists = <<>> THEN <<>> ELSE Head(lists) \o Concatenate(Tail(lists))

\* The texts that were fetched, in the order of the URLs, merged and parsed.
mergeAndParseCsvData(fileUrls, fetched) ==
  SortByDate(Concatenate([k \in 1..Len(fileUrls) |->
                            IF fileUrls[k] \in fetched THEN CsvFile(fileUrls[k])
                            ELSE <<>>]))

validRangeOf(timeRange) == IF timeRange \in VALID_TIME_RANGES THEN timeRange ELSE "6months"

\* The cache test at the head of loadCrimeData.
CacheHit(crimeData, cacheKey, now) ==
  /\ cacheKey \in DOMAIN crimeData
  /\ now - crimeData[cacheKey].timestamp < CRIME_DATA_CACHE_DURATION

\* The entry loadCrimeData stores when at least one file was fetched.
StoreLoaded(crimeData, load, mergedCrimeData) ==
  (load.validRange :> [data |-> mergedCrimeData, timestamp |-> load.now]) @@ crimeData

\* catch: the empty collection is stored under the range as it was passed,
\* with the time of the failure.
StoreFailed(crimeData, load, failedAt) ==
  (load.timeRange :> [data |-> <<>>, timestamp |-> failedAt]) @@ crimeData

\* The cache after the files of a waiting load have arrived or failed.
AfterFetch(crimeData, load, fetched, at) ==
  IF fetched = {} THEN StoreFailed(crimeData, load, at)
  ELSE StoreLoaded(crimeData, load,
                   mergeAndParseCsvData(CRIME_DATA_URLS[load.validRange], fetched))

\* handleTimeRangeChange: the listener of the search control.
handleTimeRangeChange(st, selectedRange) ==
  LET normalizedRange == IF selectedRange \in VALID_TIME_RANGES THEN selectedRange
                         ELSE "6months"
  IN  IF normalizedRange # st.currentTimeRange
      THEN [st EXCEPT !.currentTimeRange = normalizedRange, !.timeRangeChanged = TRUE]
      ELSE st

\* The change listener bindTimeRangeChangeEvent adds.
onTimeRangeSelectChange(app, newRange) ==
  IF newRange \notin VALID_TIME_RANGES \/ newRange = app.currentTimeRange THEN app
  ELSE [app EXCEPT !.currentTimeRange = newRange]

\* searchCommunities: the features whose name, MAPNAME or id contains the term.
searchCommunities(communities, searchTerm) ==
  LET lowerTerm == toLowerCase(searchTerm)
  IN  SelectSeq(communities,
        LAMBDA feature : \/ Includes(toLowerCase(feature.name), lowerTerm)
                         \/ Includes(toLowerCase(feature.MAPNAME), lowerTerm)
                         \/ Includes(toLowerCase(feature.id), lowerTerm))

\* highlightAreaByName: the first layer whose name, MAPNAME or id contains
\* the term is highlighted.
highlightAreaByName(searchTerm, m) ==
  IF m.communityLayersArray = <<>> \/ searchTerm = "" THEN m
  ELSE LET normalizedTerm == toLowerCase(searchTerm)
           matches == {k \in DOMAIN m.communityLayersArray :
                         LET item == m.communityLayersArray[k]
                         IN  \/ Includes(toLowerCase(item.name), normalizedTerm)
                             \/ Includes(toLowerCase(item.MAPNAME), normalizedTerm)
                             \/ Includes(toLowerCase(item.id), normalizedTerm)}
       IN  IF matches = {} THEN m
           ELSE highlightAreaByIndex(m.communityLayersArray[Least(matches)].index,
                                     resetAllHighlighting(m))

\* processSingleCommunity(community) as performMapLocation calls it: the
\* window is appState.currentTimeRange and no popup is shown.  position is
\* the place of the community in the features array.
processSingleCommunity(position, app, m) ==
  LET community == communitiesData[position]
      safetyTrend == ClickedTrend(app.safetyTrends, CommunityId(community),
                                  app.currentTimeRange)
      processed ==
        [m EXCEPT !.communityLayersArray =
           [k \in DOMAIN m.communityLayersArray |->
              IF m.communityLayersArray[k].index = position - 1
              THEN [m.communityLayersArray[k] EXCEPT !.safetyTrend = safetyTrend]
              ELSE m.communityLayersArray[k]]]
  IN  highlightAreaByName(CommunityName(community), processed)

\* The rest of handleSearch after handleTimeRangeUpdate: the first community
\* found is highlighted and located.
locateFirstFound(searchTerm, app, m) ==
  LET found == {k \in DOMAIN communitiesData :
                  searchCommunities(<<communitiesData[k]>>, searchTerm) # <<>>}
  IN  IF found = {} THEN m
      ELSE processSingleCommunity(Least(found), app,
             highlightAreaByName(RealName(communitiesData[Least(found)], Least(found) - 1),
                                 m))

\* A debounce that sets a timer for the event and clears none.
debounceWithoutClear(activeTimers, st, event, now) ==
  activeTimers \cup {[id |-> event, due |-> now + DEBOUNCE_DELAY, event |-> event]}

\* debounce: the timer kept in state.debounceTimer is cleared and a timer
\* for the event is set.
debounce(activeTimers, st, event, now) ==
  {t \in activeTimers : t.id # st.debounceTimer}
  \cup {[id |-> event, due |-> now + DEBOUNCE_DELAY, event |-> event]}

(***************************************************************************)
(* The state machine.                                                      *)
(***************************************************************************)
NoProjection == [of |-> 0, timeRange |-> "", result |-> NoTrends]
NoProbe == [op |-> "", lat |-> 0, lon |-> 0, polygon |-> <<>>,
            result |-> FALSE, reversed |-> FALSE]

Init ==
  /\ communityBounds = <<>>
  /\ results = NoTrends
  /\ history = <<>>
  /\ projection = NoProjection
  /\ clock = ClockStart
  /\ probe = NoProbe
  /\ appState = [safetyTrends |-> <<>>, currentTimeRange |-> "6months",
                 crimeData |-> <<>>]
  /\ map = initMapState
  /\ state = [timeRangeChanged |-> FALSE, currentTimeRange |-> "6months",
              debounceTimer |-> 0]
  /\ dom = [timeRangeSelect |-> "6months", searchInput |-> "", listening |-> TRUE]
  /\ timers = {}
  /\ pending = {}
  /\ dateNow = 0
  /\ log = <<>>

\* calculateSafetyTrends(communities, crimeData, timeRange, selectedCrimeTypes).
\* getPeriodType reads the wall clock anew at every record: the clock advances
\* at most once during the call, after k records have been classified (never,
\* when k is the number of records).  The entry appended to history keeps the
\* inputs, the clock readings and the cache the call started from.
CalculateSafetyTrends(communities, crimeData, timeRange, selectedCrimeTypes, k) ==
  /\ Len(history) < MaxCalls
  /\ k \in 0..Len(crimeData)
  /\ k < Len(crimeData) => clock < ClockStart + MaxClockTicks
  /\ \E nowAt \in {[i \in 1..Len(crimeData) |-> IF i <= k THEN clock ELSE clock + 1]} :
     \E out \in {calculateSafetyTrends(communities, crimeData, timeRange,
                   selectedCrimeTypes, nowAt, communityBounds)} :
       /\ communityBounds' = out.cache
       /\ results' = IF out.stored THEN out.trends ELSE results
       /\ history' = Append(history,
            [communities |-> communities, crimeData |-> crimeData,
             communitiesShape |-> "FeatureCollection",
             crimeDataShape |-> "FeatureCollection",
             timeRange |-> timeRange, selectedCrimeTypes |-> selectedCrimeTypes,
             nowAt |-> nowAt, boundsBefore |-> communityBounds,
             trends |-> out.trends, escaped |-> out.escaped])
       /\ clock' = IF k < Len(crimeData) THEN clock + 1 ELSE clock
  /\ UNCHANGED <<projection, probe, appState, map>>
  /\ UNCHANGED uiVars

\* calculateSafetyTrends on arguments of any shape, the wall clock standing
\* still during the call.
CalculateSafetyTrendsOnInput(communities, crimeData, timeRange, selectedCrimeTypes) ==
  /\ Len(history) < MaxCalls
  /\ \E nowAt \in {[i \in 1..Len(crimeData.features) |-> clock]} :
     \E out \in {calculateSafetyTrendsOnInput(communities, crimeData, timeRange,
                   selectedCrimeTypes, nowAt, communityBounds)} :
       /\ communityBounds' = out.cache
       /\ results' = IF out.stored THEN out.trends ELSE results
       /\ history' = Append(history,
            [communities |-> communities.features, crimeData |-> crimeData.features,
             communitiesShape |-> communities.shape,
             crimeDataShape |-> crimeData.shape,
             timeRange |-> timeRange, selectedCrimeTypes |-> selectedCrimeTypes,
             nowAt |-> nowAt, boundsBefore |-> communityBounds,
             trends |-> out.trends, escaped |-> out.escaped])
  /\ UNCHANGED <<projection, clock, probe, appState, map>>
  /\ UNCHANGED uiVars

\* The caller projects the mapping it was returned last.
GetSafetyTrendsForTimeRange(timeRange) ==
  /\ history # <<>>
  /\ projection' = [of |-> Len(history), timeRange |-> timeRange,
                    result |-> getSafetyTrendsForTimeRange(history[Len(history)].trends,
                                                           timeRange)]
  /\ UNCHANGED <<communityBounds, results, history, clock, probe, appState, map>>
  /\ UNCHANGED uiVars

\* pointInPolygon applied to a ring and to the ring reversed.
PointInPolygon(lat, lon, polygon) ==
  /\ probe' = [op |-> "pointInPolygon", lat |-> lat, lon |-> lon, polygon |-> polygon,
               result |-> pointInPolygon(lat, lon, polygon),
               reversed |-> pointInPolygon(lat, lon, Reverse(polygon))]
  /\ UNCHANGED <<communityBounds, results, history, projection, clock, appState, map>>
  /\ UNCHANGED uiVars

\* main.js keeps the mapping of a finished call under its window and shows it.
ShowCommunitiesOnMap(h) ==
  /\ h \in DOMAIN history
  /\ appState' = [appState EXCEPT !.safetyTrends =
                    (history[h].timeRange :> history[h].trends) @@ @]
  /\ map' = showCommunitiesOnMap(history[h].communities, map, history[h].trends,
                                 history[h].timeRange)
  /\ UNCHANGED <<communityBounds, results, history, projection, clock, probe>>
  /\ UNCHANGED uiVars

HighlightAreaByIndex(targetIndex) ==
  /\ map.communityLayersArray # <<>>
  /\ map' = highlightAreaByIndex(targetIndex, map)
  /\ UNCHANGED <<communityBounds, results, history, projection, clock, probe, appState>>
  /\ UNCHANGED uiVars

\* A click on the layer at position k of communityLayersArray.
HandleCommunityClick(k) ==
  /\ k \in DOMAIN map.communityLayersArray
  /\ map' = handleCommunityClick(k, map, appState.safetyTrends)
  /\ UNCHANGED <<communityBounds, results, history, projection, clock, probe, appState>>
  /\ UNCHANGED uiVars

\* getPolygonCoordinates applied to a geometry.
GetPolygonCoordinates(geometry) ==
  /\ probe' = [op |-> "getPolygonCoordinates", geometry |-> geometry,
               result |-> getPolygonCoordinates(geometry)]
  /\ UNCHANGED <<communityBounds, results, history, projection, clock, appState, map>>
  /\ UNCHANGED uiVars

\* createSpatialIndex on a point list, then the cell loops of
\* getCrimesInCommunityBounds on a box.
CreateSpatialIndex(features, gridSize, bounds) ==
  /\ \E spatialIndex \in {createSpatialIndex(features, gridSize)} :
       probe' = [op |-> "createSpatialIndex", features |-> features,
                 gridSize |-> gridSize, bounds |-> bounds,
                 spatialIndex |-> spatialIndex,
                 result |-> CrimesInBounds(spatialIndex, bounds, gridSize)]
  /\ UNCHANGED <<communityBounds, results, history, projection, clock, appState, map>>
  /\ UNCHANGED uiVars

\* The containment test of calculateSafetyTrends for one boundary and one
\* point: pointInPolygon on the vertex list extracted from the geometry.
PointInCommunity(lat, lon, geometry) ==
  /\ \E communityCoords \in {getPolygonCoordinates(geometry)} :
       probe' = [op |-> "pointInCommunity", lat |-> lat, lon |-> lon,
                 geometry |-> geometry, communityCoords |-> communityCoords,
                 result |-> pointInPolygon(lat, lon, communityCoords)]
  /\ UNCHANGED <<communityBounds, results, history, projection, clock, appState, map>>
  /\ UNCHANGED uiVars

\* An entry of log: the operation, the event or load it belongs to, the
\* window, the text, Date.now(), and for the cache the data and the files.
LogEntry(op, id, range, value, data, fetched) ==
  [op |-> op, id |-> id, range |-> range, value |-> value, at |-> dateNow,
   data |-> data, fetched |-> fetched]

Count(op) == Cardinality({k \in DOMAIN log : log[k].op = op})

\* The variables a finished handleTimeRangeUpdate and the rest of
\* handleSearch leave: the mapping is computed over the data, kept under
\* currentRange and shown, and the first community found is located.
SearchCompletes(load, crimeData, crimeCache, entries) ==
  \E nowAt \in {[i \in 1..Len(crimeData) |-> clock]} :
  \E out \in {calculateSafetyTrends(communitiesData, crimeData, load.timeRange, <<>>,
                                    nowAt, communityBounds)} :
  \E app \in {[appState EXCEPT !.crimeData = crimeCache,
                               !.safetyTrends = (load.timeRange :> out.trends) @@ @]} :
    /\ communityBounds' = out.cache
    /\ results' = IF out.stored THEN out.trends ELSE results
    /\ history' = Append(history,
         [communities |-> communitiesData, crimeData |-> crimeData,
          communitiesShape |-> "FeatureCollection",
          crimeDataShape |-> "FeatureCollection",
          timeRange |-> load.timeRange, selectedCrimeTypes |-> <<>>,
          nowAt |-> nowAt, boundsBefore |-> communityBounds,
          trends |-> out.trends, escaped |-> out.escaped])
    /\ appState' = app
    /\ map' = locateFirstFound(load.searchTerm, app,
                showCommunitiesOnMap(communitiesData, map, out.trends, load.timeRange))
    /\ state' = [state EXCEPT !.timeRangeChanged = FALSE]
    /\ log' = log \o entries
              \o <<LogEntry("searchCompleted", load.id, load.timeRange, load.searchTerm,
                            crimeData, {})>>

\* What a load leaves when it was called outside a search (preloadAllData,
\* window.loadCrimeData).
LoadCompletes(crimeCache, entries) ==
  /\ appState' = [appState EXCEPT !.crimeData = crimeCache]
  /\ log' = log \o entries
  /\ UNCHANGED <<communityBounds, results, history, map, state>>

Completes(load, crimeData, crimeCache, entries) ==
  IF load.kind = "search" THEN SearchCompletes(load, crimeData, crimeCache, entries)
  ELSE LoadCompletes(crimeCache, entries)

\* loadCrimeData(timeRange) up to its await: a fresh cache entry is returned
\* at once, else the files are requested and the call waits.
StartLoad(kind, timeRange, searchTerm) ==
  \E load \in {[id |-> Count("handleSearch") + Count("loadCrimeData") + 1,
                kind |-> kind, timeRange |-> timeRange,
                validRange |-> validRangeOf(timeRange),
                now |-> dateNow, searchTerm |-> searchTerm]} :
  \E started \in {LogEntry(IF kind = "search" THEN "handleSearch" ELSE "loadCrimeData",
                           load.id, timeRange, searchTerm, <<>>, {})} :
    IF CacheHit(appState.crimeData, load.validRange, load.now)
    THEN /\ Completes(load, appState.crimeData[load.validRange].data, appState.crimeData,
                      <<started,
                        LogEntry("served", load.id, load.validRange, searchTerm,
                                 appState.crimeData[load.validRange].data, {})>>)
         /\ UNCHANGED pending
    ELSE /\ pending' = pending \cup {load}
         /\ log' = Append(log, started)
         /\ UNCHANGED <<communityBounds, results, history, appState, map, state>>

\* handleSearch up to the await of the files.
HandleSearch ==
  /\ Count("handleSearch") < MaxSearches
  /\ dom.searchInput # ""
  /\ StartLoad("search", state.currentTimeRange, dom.searchInput)
  /\ UNCHANGED <<projection, clock, probe, dom, timers, dateNow>>

\* window.loadCrimeData(timeRange).
LoadCrimeData(timeRange) ==
  /\ Count("loadCrimeData") < MaxLoads
  /\ StartLoad("load", timeRange, "")
  /\ UNCHANGED <<projection, clock, probe, dom, timers, dateNow>>

\* The requests of a waiting load have settled, the files of fetched with a
\* text and the others with null; the caller of the load goes on.
FinishLoad(load, fetched) ==
  /\ load \in pending
  /\ fetched \subseteq Range(CRIME_DATA_URLS[load.validRange])
  /\ pending' = pending \ {load}
  /\ \E crimeCache \in {AfterFetch(appState.crimeData, load, fetched, dateNow)} :
     \E key \in {IF fetched = {} THEN load.timeRange ELSE load.validRange} :
       Completes(load, crimeCache[key].data, crimeCache,
                 <<LogEntry("stored", load.id, key, "", crimeCache[key].data, fetched)>>)
  /\ UNCHANGED <<projection, clock, probe, dom, timers, dateNow>>

\* window.clearCrimeDataCache().
ClearCrimeDataCache ==
  /\ Count("cleared") < MaxClears
  /\ appState' = [appState EXCEPT !.crimeData = <<>>]
  /\ log' = Append(log, LogEntry("cleared", 0, "", "", <<>>, {}))
  /\ UNCHANGED <<communityBounds, results, history, projection, clock, probe, map,
                 state, dom, timers, pending, dateNow>>

\* Time passes.
Tick(ms) ==
  /\ dateNow + ms <= MaxTicks * ms
  /\ dateNow' = dateNow + ms
  /\ UNCHANGED <<communityBounds, results, history, projection, clock, probe, appState,
                 map, state, dom, timers, pending, log>>

\* The user picks another option of the time-range select: the change event
\* runs the listener of the search control, while it is bound, and then the
\* listener of main.js.
TimeRangeChangeEvent(value) ==
  /\ value # dom.timeRangeSelect
  /\ dom' = [dom EXCEPT !.timeRangeSelect = value]
  /\ state' = IF dom.listening THEN handleTimeRangeChange(state, value) ELSE state
  /\ appState' = onTimeRangeSelectChange(appState, value)
  /\ UNCHANGED <<communityBounds, results, history, projection, clock, probe, map,
                 timers, pending, dateNow, log>>

\* setTimeRange(range) of the object setupSearchControls returns: assigning
\* select.value dispatches no change event.
SetTimeRange(range) ==
  /\ IF range \in VALID_TIME_RANGES
     THEN /\ dom' = [dom EXCEPT !.timeRangeSelect = range]
          /\ state' = handleTimeRangeChange(state, range)
     ELSE UNCHANGED <<dom, state>>
  /\ UNCHANGED <<communityBounds, results, history, projection, clock, probe, appState,
                 map, timers, pending, dateNow, log>>

\* An input event of the search box, the box then holding value.  While the
\* listener is bound the debounced handler restarts its timer.
InputEvent(value) ==
  /\ Count("input") < MaxInputs
  /\ value # dom.searchInput
  /\ dom' = [dom EXCEPT !.searchInput = value]
  /\ \E event \in {Count("input") + 1} :
       /\ log' = Append(log, LogEntry("input", event, "", value, <<>>, {}))
       /\ IF dom.listening
          THEN /\ timers' = debounce(timers, state, event, dateNow)
               /\ state' = [state EXCEPT !.debounceTimer = event]
          ELSE UNCHANGED <<timers, state>>
  /\ UNCHANGED <<communityBounds, results, history, projection, clock, probe, appState,
                 map, pending, dateNow>>

\* A timer of debounce expires: handleRealTimeSearch reads the box and
\* searches the communities.
RealTimeSearch(timer) ==
  /\ timer \in timers
  /\ dateNow >= timer.due
  /\ timers' = timers \ {timer}
  /\ log' = Append(log, LogEntry("realTimeSearch", timer.event, "", dom.searchInput,
                                 searchCommunities(communitiesData, dom.searchInput), {}))
  /\ UNCHANGED <<communityBounds, results, history, projection, clock, probe, appState,
                 map, state, dom, pending, dateNow>>

\* destroy() of the object setupSearchControls returns.
Destroy ==
  /\ dom.listening
  /\ dom' = [dom EXCEPT !.listening = FALSE]
  /\ timers' = {t \in timers : t.id # state.debounceTimer}
  /\ log' = Append(log, LogEntry("destroy", 0, "", "", <<>>, {}))
  /\ UNCHANGED <<communityBounds, results, history, projection, clock, probe, appState,
                 map, state, pending, dateNow>>

\* highlightAreaByName(searchTerm, map).
HighlightAreaByName(searchTerm) ==
  /\ map' = highlightAreaByName(searchTerm, map)
  /\ UNCHANGED <<communityBounds, results, history, projection, clock, probe, appState>>
  /\ UNCHANGED uiVars

\* updateMapWithTimeRange(map, timeRange, safetyTrends) with the mapping of
\* a finished call: the first batch is requested.
UpdateMapWithTimeRange(h) ==
  /\ h \in DOMAIN history
  /\ map.communityLayersArray # <<>>
  /\ map' = updateMapWithTimeRange(map, history[h].timeRange, history[h].trends)
  /\ timers' = timers \cup {BatchFrame}
  /\ UNCHANGED <<communityBounds, results, history, projection, clock, probe, appState,
                 state, dom, pending, dateNow, log>>

\* The animation frame of the batch: every layer gets the default style and
\* the timeout of the highlight is set.
UpdateNextBatch ==
  /\ BatchFrame \in timers
  /\ map' = updateNextBatch(map)
  /\ timers' = (timers \ {BatchFrame}) \cup {HighlightTimeout}
  /\ UNCHANGED <<communityBounds, results, history, projection, clock, probe, appState,
                 state, dom, pending, dateNow, log>>

\* The timeout after the last batch.
HighlightAfterUpdate ==
  /\ HighlightTimeout \in timers
  /\ map' = IF map.currentHighlightedIndex # -1
            THEN highlightAreaByIndex(map.currentHighlightedIndex, map)
            ELSE map
  /\ timers' = timers \ {HighlightTimeout}
  /\ UNCHANGED <<communityBounds, results, history, projection, clock, probe, appState,
                 state, dom, pending, dateNow, log>>

\* Any sequence of calls on the community files and crime files.
Next ==
  \/ \E communities \in CommunityInputs, crimeData \in CrimeInputs,
        timeRange \in TimeRanges :
       CalculateSafetyTrends(communities, crimeData, timeRange, <<>>, Len(crimeData))
  \/ \E timeRange \in TimeRanges : GetSafetyTrendsForTimeRange(timeRange)

Spec == Init /\ [][Next]_vars

\* One call over every pair of counts, then projections of its result.
NextCounts ==
  \/ /\ history = <<>>
     /\ \E recentCount \in 0..MaxCount, previousCount \in 0..MaxCount,
           timeRange \in TimeRanges :
          CalculateSafetyTrends(<<Alpha, Charlie>>, CountData(recentCount, previousCount),
                                timeRange, <<>>, recentCount + previousCount)
  \/ \E timeRange \in TimeRanges : GetSafetyTrendsForTimeRange(timeRange)

SpecCounts == Init /\ [][NextCounts]_vars

\* One call over every selection of at most MaxSelected categories.
NextCategories ==
  /\ history = <<>>
  /\ \E crimeData \in LabelInputs, timeRange \in TimeRanges,
        selectedCrimeTypes \in SeqsUpTo(Categories, MaxSelected) :
       CalculateSafetyTrends(<<Alpha, Bravo>>, crimeData, timeRange, selectedCrimeTypes,
                             Len(crimeData))

SpecCategories == Init /\ [][NextCategories]_vars

\* One call over one crime at every place around the edges of the square
\* and of the triangle.
EdgeCoordinates ==
  {-20, -5, 0, 5, 10000, 19995, 20000, 20005, 20020, 30000, 40000, 50005}

NextEdges ==
  /\ history = <<>>
  /\ \E lat \in EdgeCoordinates, lon \in EdgeCoordinates, year \in {2024, 2025} :
       CalculateSafetyTrends(<<Alpha, Charlie>>,
                             <<Crime(lon, lat, DateOf(year, 2), Thefts)>>, "1year", <<>>, 1)

SpecEdges == Init /\ [][NextEdges]_vars

\* One call over two records of every pair of years, under the three modes
\* and under a token that names no mode.
Years == 2020..2027

YearData(y1, y2) ==
  << Crime(5000, 5000, DateOf(y1, 0), Thefts),
     Crime(6000, 6000, DateOf(y2, 11), AggravatedAssault) >>

NextYears ==
  /\ history = <<>>
  /\ \E y1 \in Years, y2 \in Years, timeRange \in TimeRanges \cup {"3years"} :
       CalculateSafetyTrends(<<Alpha>>, YearData(y1, y2), timeRange, <<>>, 2)

SpecYears == Init /\ [][NextYears]_vars

\* Defective elements: a null entry, a boundary of the square and a boundary
\* without geometry that have neither id nor properties, a boundary with
\* an id and no properties.
NullCommunity == [Community("", "", "", NoGeometry) EXCEPT !.defect = "null"]
BareSquare == [Community("", "", "", Polygon(ShiftedSquareRing)) EXCEPT !.defect = "noProperties"]
BareNoGeometry == [Community("", "", "", NoGeometry) EXCEPT !.defect = "noProperties"]
IdOnly == [Community("hotel", "", "", Polygon(ShiftedSquareRing)) EXCEPT !.defect = "noProperties"]

\* A null record, a record without properties, a record without geometry.
NullCrime == [Crime(0, 0, NoDate, <<>>) EXCEPT !.defect = "null", !.coordinates = <<>>]
CrimeNoProperties ==
  [Crime(5000, 5000, NoDate, <<>>) EXCEPT !.defect = "noProperties"]
CrimeNoGeometry ==
  [Crime(0, 0, DateOf(2025, 2), Thefts) EXCEPT !.coordinates = <<>>]

\* s with x inserted before position i.
InsertAt(s, i, x) == SubSeq(s, 1, i - 1) \o <<x>> \o SubSeq(s, i, Len(s))

SoundCrimes ==
  << Crime(5000, 5000, DateOf(2025, 2), AggravatedAssault),
     Crime(15000, 15000, DateOf(2024, 8), Thefts),
     Crime(35000, 5000, DateOf(2025, 3), Thefts) >>

CommunityArguments ==
  {Absent, NoFeatures, FeaturesNotArray, FeatureCollection(<<Alpha, Charlie>>)}
  \cup {FeatureCollection(InsertAt(<<Alpha, Charlie>>, i, x)) :
          i \in 1..3, x \in {NullCommunity, BareSquare, BareNoGeometry, IdOnly}}

CrimeArguments ==
  {Absent, NoFeatures, FeaturesNotArray, FeatureCollection(<<>>),
   FeatureCollection(SoundCrimes)}
  \cup {FeatureCollection(InsertAt(SoundCrimes, i, x)) :
          i \in {1, 4}, x \in {NullCrime, CrimeNoProperties, CrimeNoGeometry}}

\* One call on arguments of every shape, with at most one defective element
\* in each collection.
NextMalformed ==
  /\ history = <<>>
  /\ \E communities \in CommunityArguments, crimeData \in CrimeArguments,
        timeRange \in TimeRanges, selectedCrimeTypes \in {<<>>, <<Thefts>>} :
       CalculateSafetyTrendsOnInput(communities, crimeData, timeRange, selectedCrimeTypes)

SpecMalformed == Init /\ [][NextMalformed]_vars

\* Calls in mode 6months during which the wall clock advances.
ClockData ==
  << Crime(5000, 5000, DateOf(2025, 0), Thefts),
     Crime(5000, 6000, DateOf(2025, 0), Thefts),
     Crime(5000, 7000, DateOf(2024, 6), AggravatedAssault),
     Crime(5000, 8000, DateOf(2024, 6), AggravatedAssault),
     Crime(5000, 9000, DateOf(2025, 6), Thefts) >>

NextClock ==
  \E k \in 0..Len(ClockData), selectedCrimeTypes \in SeqsUpTo(Categories, 1) :
    CalculateSafetyTrends(<<Alpha>>, ClockData, "6months", selectedCrimeTypes, k)

SpecClock == Init /\ [][NextClock]_vars

\* One call over every pair of counts, its mapping shown, then highlights
\* and clicks on the layers.
NextMap ==
  \/ /\ history = <<>>
     /\ \E recentCount \in 0..MaxCount, previousCount \in 0..MaxCount,
           timeRange \in TimeRanges :
          CalculateSafetyTrends(<<Alpha, Delta, Charlie>>,
                                CountData(recentCount, previousCount),
                                timeRange, <<>>, recentCount + previousCount)
  \/ /\ map.communityLayersArray = <<>>
     /\ ShowCommunitiesOnMap(Len(history))
  \/ \E targetIndex \in 0..2 : HighlightAreaByIndex(targetIndex)
  \/ \E k \in 1..2 : HandleCommunityClick(k)

SpecMap == Init /\ [][NextMap]_vars

\* getPolygonCoordinates on every geometry of GeometryInputs.
NextGeometry ==
  /\ probe = NoProbe
  /\ \E geometry \in GeometryInputs : GetPolygonCoordinates(geometry)

SpecGeometry == Init /\ [][NextGeometry]_vars

\* An index built from every list of up to MaxPoints points, queried once.
NextGrid ==
  /\ probe = NoProbe
  /\ \E features \in SeqsUpTo(GridPoints, MaxPoints), gridSize \in GridSizes,
        bounds \in GridBounds :
       CreateSpatialIndex(features, gridSize, bounds)

SpecGrid == Init /\ [][NextGrid]_vars

\* The containment test on every boundary of DisjointGeometries.
NextMembers ==
  /\ probe = NoProbe
  /\ \E geometry \in DisjointGeometries,
        lat \in MemberCoordinates, lon \in MemberCoordinates :
       PointInCommunity(lat, lon, geometry)

SpecMembers == Init /\ [][NextMembers]_vars

\* The tester on every ring of at most MaxVerts vertices.
NextPolygon ==
  /\ probe = NoProbe
  /\ \E polygon \in SeqsUpTo(RingVertices, MaxVerts),
        lat \in TestCoordinates, lon \in TestCoordinates :
       PointInPolygon(lat, lon, polygon)

SpecPolygon == Init /\ [][NextPolygon]_vars

\* A term is typed into the search box, the time-range select and
\* setTimeRange are used, searches are started and their loads settle in any
\* order, with every file or with none.
SearchTerms == {"a", "zulu"}

FetchOutcomes(validRange) == {{}, Range(CRIME_DATA_URLS[validRange])}

NextSearch ==
  \/ /\ dom.searchInput = ""
     /\ \E value \in SearchTerms : InputEvent(value)
  \/ \E value \in VALID_TIME_RANGES : TimeRangeChangeEvent(value)
  \/ \E range \in VALID_TIME_RANGES \cup {"3years"} : SetTimeRange(range)
  \/ HandleSearch
  \/ \E load \in pending : \E fetched \in FetchOutcomes(load.validRange) :
       FinishLoad(load, fetched)

SpecSearch == Init /\ [][NextSearch]_vars

\* Loads of the three windows that settle with every file or with none,
\* while time passes in steps of half the cache duration, up to the cache
\* duration, and the cache is cleared.
CacheStep == CRIME_DATA_CACHE_DURATION \div 2

NextCrimeData ==
  \/ \E timeRange \in VALID_TIME_RANGES : LoadCrimeData(timeRange)
  \/ \E load \in pending : \E fetched \in FetchOutcomes(load.validRange) :
       FinishLoad(load, fetched)
  \/ ClearCrimeDataCache
  \/ /\ dateNow < CRIME_DATA_CACHE_DURATION
     /\ Tick(CacheStep)

SpecCrimeData == Init /\ [][NextCrimeData]_vars

\* One call over counts that rise or fall, then its mapping is shown or
\* applied by updateMapWithTimeRange any number of times, between highlights
\* by index and by name and clicks on the layers.  The layers are not
\* replaced while a batch of updateMapWithTimeRange is due.
NextHighlight ==
  \/ /\ history = <<>>
     /\ \E recentCount \in {0, 2}, previousCount \in {0, 1}, timeRange \in TimeRanges :
          CalculateSafetyTrends(<<Alpha, Delta, Charlie>>,
                                CountData(recentCount, previousCount),
                                timeRange, <<>>, recentCount + previousCount)
  \/ /\ timers = {}
     /\ ShowCommunitiesOnMap(Len(history))
  \/ \E targetIndex \in 0..2 : HighlightAreaByIndex(targetIndex)
  \/ \E searchTerm \in {"a", "charlie", "zulu"} : HighlightAreaByName(searchTerm)
  \/ \E k \in 1..2 : HandleCommunityClick(k)
  \/ UpdateMapWithTimeRange(Len(history))
  \/ UpdateNextBatch
  \/ HighlightAfterUpdate

SpecHighlight == Init /\ [][NextHighlight]_vars

\* Input events of the search box while time passes in steps of a third of
\* the debounce delay; the timers expire and destroy() is called.
DebounceStep == DEBOUNCE_DELAY \div 3

NextDebounce ==
  \/ \E value \in {"a", "charlie", "zulu"} : InputEvent(value)
  \/ \E timer \in timers : RealTimeSearch(timer)
  \/ Destroy
  \/ Tick(DebounceStep)

SpecDebounce == Init /\ [][NextDebounce]_vars

(***************************************************************************)
(* Properties.  history[h] is the h-th call of calculateSafetyTrends with  *)
(* its inputs and the mapping it returned.                                 *)
(***************************************************************************)
SameInputs(a, b) ==
  /\ a.communities = b.communities
  /\ a.crimeData = b.crimeData
  /\ a.selectedCrimeTypes = b.selectedCrimeTypes

\* Two consecutive calls over the same boundaries and points for two
\* distinct windows.
WindowAThenB(h) ==
  /\ h >= 1
  /\ h + 1 <= Len(history)
  /\ SameInputs(history[h], history[h + 1])
  /\ history[h].timeRange # history[h + 1].timeRange

\* C1: after calculateSafetyTrends for window A and then for window B over
\* the same boundaries and points, getSafetyTrendsForTimeRange with window A
\* on the latest mapping returns for every neighborhood the recentCount,
\* previousCount and changePercent that the window-A computation returned.
C1_RoundTripAcrossWindows ==
  \A h \in 1..(Len(history) - 1) :
    ( /\ WindowAThenB(h)
      /\ projection.of = h + 1
      /\ projection.timeRange = history[h].timeRange )
    => \A id \in DOMAIN history[h].trends :
         /\ id \in DOMAIN projection.result
         /\ projection.result[id].recentCount = history[h].trends[id].recentCount
         /\ projection.result[id].previousCount = history[h].trends[id].previousCount
         /\ projection.result[id].changePercent.num =
              history[h].trends[id].changePercent * projection.result[id].changePercent.den

\* C2: after calculateSafetyTrends for window A and then for a different
\* window B over the same boundaries, every record of the second run holds
\* timeRanges[A] as the first run computed it and timeRanges[B].
C2_WindowResultsAccumulate ==
  \A h \in 1..(Len(history) - 1) :
    WindowAThenB(h)
    => \A id \in DOMAIN history[h + 1].trends :
         LET first  == history[h].trends[id]
             second == history[h + 1].trends[id]
         IN  /\ history[h + 1].timeRange \in DOMAIN second.timeRanges
             /\ history[h].timeRange \in DOMAIN second.timeRanges
             /\ history[h].timeRange \in DOMAIN first.timeRanges
                => second.timeRanges[history[h].timeRange] =
                     first.timeRanges[history[h].timeRange]

\* Every record returned by some call.
ReturnedRecords ==
  UNION {{history[h].trends[id] : id \in DOMAIN history[h].trends} : h \in DOMAIN history}

\* Every record of the last projection.
ProjectedRecords == {projection.result[id] : id \in DOMAIN projection.result}

\* C3: changePercent is at most 100 in every record returned by
\* calculateSafetyTrends and in every record returned by
\* getSafetyTrendsForTimeRange, however large the increase.
C3_ChangePercentAtMost100 ==
  /\ \A trend \in ReturnedRecords : trend.changePercent <= 100
  /\ \A trend \in ProjectedRecords :
       trend.changePercent.num <= 100 * trend.changePercent.den

\* C4: a record whose previousCount is 0 has changePercent 0 whatever its
\* recentCount, in the mapping of calculateSafetyTrends and in the
\* projection of getSafetyTrendsForTimeRange.
C4_ZeroPreviousRule ==
  /\ \A trend \in ReturnedRecords :
       trend.previousCount = 0 => trend.changePercent = 0
  /\ \A trend \in ProjectedRecords :
       trend.previousCount = 0 => trend.changePercent.num = 0

\* C4 witness: 3 recent and 0 previous crimes gave changePercent 0, in the
\* mapping and in its projection.
C4_Witness ==
  /\ \E trend \in ReturnedRecords :
       trend.recentCount = 3 /\ trend.previousCount = 0 /\ trend.changePercent = 0
  /\ \E trend \in ProjectedRecords :
       trend.recentCount = 3 /\ trend.previousCount = 0 /\ trend.changePercent.num = 0

\* C5 as stated: with previous > 0 the stored changePercent is
\* (recent - previous) / previous * 100 capped at 100 and rounded to the
\* nearest integer, halves away from zero.
C5_RoundHalfAwayFromZero ==
  \A trend \in ReturnedRecords :
    LET r == trend.recentCount
        p == trend.previousCount
    IN  p > 0 =>
          trend.changePercent =
            Min(100, IF r >= p THEN (200 * (r - p) + p) \div (2 * p)
                     ELSE -((200 * (p - r) + p) \div (2 * p)))

\* C5 amended: with previous > 0 the stored changePercent is
\* (recent - previous) / previous * 100 rounded to the nearest integer,
\* halves toward plus infinity, then capped at 100.
C5_RoundHalfUp ==
  \A trend \in ReturnedRecords :
    LET r == trend.recentCount
        p == trend.previousCount
    IN  p > 0 =>
          trend.changePercent = Min(100, (200 * (r - p) + p) \div (2 * p))

\* C5 witness: 7 recent against 8 previous is -12.5 and is stored as -12.
C5_Witness ==
  \E trend \in ReturnedRecords :
       trend.recentCount = 7 /\ trend.previousCount = 8 /\ trend.changePercent = -12

\* A boundary whose geometry extracts to fewer than 3 vertices.
IsDegenerate(community) == Len(getPolygonCoordinates(community.geometry)) < 3

\* C6: every boundary whose geometry extracts to fewer than 3 vertices gets
\* a record with recentCount, previousCount and changePercent 0 and an empty
\* category breakdown, and the records of the other boundaries are those of
\* the same call without the degenerate boundaries.
C6_DegenerateBoundaries ==
  \A h \in DOMAIN history :
    LET call == history[h]
        others == SelectSeq(call.communities, LAMBDA community : ~IsDegenerate(community))
        alone == calculateSafetyTrends(others, call.crimeData, call.timeRange,
                                       call.selectedCrimeTypes, call.nowAt,
                                       call.boundsBefore).trends
    IN  /\ \A i \in DOMAIN call.communities :
             IsDegenerate(call.communities[i])
             => /\ CommunityId(call.communities[i]) \in DOMAIN call.trends
                /\ LET trend == call.trends[CommunityId(call.communities[i])]
                   IN  /\ trend.recentCount = 0
                       /\ trend.previousCount = 0
                       /\ trend.changePercent = 0
                       /\ trend.crimeTypes = <<>>
        /\ \A id \in DOMAIN alone : id \in DOMAIN call.trends /\ call.trends[id] = alone[id]

\* The crimes of one period of a call that pointInPolygon accepts for a
\* vertex list.
Accepted(call, period, communityCoords) ==
  LET crimes == PeriodCrimes(call.crimeData, call.timeRange, call.selectedCrimeTypes,
                             call.nowAt, period)
  IN  {j \in DOMAIN crimes :
         /\ Len(crimes[j].coordinates) >= 2
         /\ pointInPolygon(crimes[j].coordinates[2], crimes[j].coordinates[1],
                           communityCoords)}

\* C7: for a boundary of at least 3 vertices every point of a period that
\* pointInPolygon accepts, on-edge tolerance included, is among the
\* candidates of the grid query, so the counted set is the accepted set.
C7_NoFalseNegatives ==
  \A h \in DOMAIN history :
    \A i \in DOMAIN history[h].communities :
      LET call == history[h]
          community == call.communities[i]
          communityCoords == getPolygonCoordinates(community.geometry)
      IN  (Len(communityCoords) >= 3 /\ CommunityId(community) \in DOMAIN call.trends)
          => /\ call.trends[CommunityId(community)].recentCount =
                  Cardinality(Accepted(call, "recent", communityCoords))
             /\ call.trends[CommunityId(community)].previousCount =
                  Cardinality(Accepted(call, "previous", communityCoords))

\* The point <<lat, lon>> lies exactly on the edge between vertices a and b.
OnEdge(lat, lon, a, b) ==
  /\ (lat - a[1]) * (b[2] - a[2]) = (lon - a[2]) * (b[1] - a[1])
  /\ Min(a[1], b[1]) <= lat /\ lat <= Max(a[1], b[1])
  /\ Min(a[2], b[2]) <= lon /\ lon <= Max(a[2], b[2])

\* The point lies exactly on an edge of the ring, its closing edge included.
OnSomeEdge(lat, lon, polygon) ==
  \E i \in DOMAIN polygon :
    OnEdge(lat, lon, polygon[i], polygon[IF i = 1 THEN Len(polygon) ELSE i - 1])

\* C8: pointInPolygon returns true for every point lying exactly on an edge
\* of a polygon of at least 3 vertices, and false for every point when the
\* vertex list has fewer than 3 vertices.
C8_BoundaryPointsContained ==
  probe.op = "pointInPolygon"
  => /\ Len(probe.polygon) < 3 => probe.result = FALSE
     /\ (Len(probe.polygon) >= 3 /\ OnSomeEdge(probe.lat, probe.lon, probe.polygon))
        => probe.result = TRUE

\* C8 witness: a point on the edge from (20000, 20000) to (20000, 0), which
\* no ray to the east crosses, was found inside.
C8_Witness ==
  /\ probe.op = "pointInPolygon"
  /\ probe.polygon = <<<<0, 0>>, <<0, 20000>>, <<20000, 20000>>, <<20000, 0>>>>
  /\ probe.lat = 20000
  /\ probe.lon = 10000
  /\ probe.result = TRUE

\* C9: pointInPolygon returns the same result for a ring and for the ring
\* with its vertex order reversed.
C9_WindingIndependence ==
  probe.op = "pointInPolygon" => probe.result = probe.reversed

\* C9 witness: a point strictly inside a ring that differs from its
\* reversal was found inside both.
C9_Witness ==
  /\ probe.op = "pointInPolygon"
  /\ Len(probe.polygon) >= 3
  /\ Reverse(probe.polygon) # probe.polygon
  /\ ~OnSomeEdge(probe.lat, probe.lon, probe.polygon)
  /\ probe.result = TRUE
  /\ probe.reversed = TRUE

\* The category filter as the contract words it.
MatchesSelection(label, selected) ==
  \/ Len(selected) = 0
  \/ \E k \in DOMAIN selected :
       IF selected[k] = ViolentCrime
       THEN /\ ~Includes(label, BurglaryResidential)
            /\ ~Includes(label, MotorVehicleTheft)
            /\ ~Includes(label, TheftFromVehicle)
            /\ ~Includes(label, VandalismCriminalMischief)
       ELSE Includes(label, selected[k])

\* The records of a call that match its selection, are dated in the period
\* and lie in the vertex list.
MatchingIn(call, period, communityCoords) ==
  {j \in DOMAIN call.crimeData :
     /\ MatchesSelection(call.crimeData[j].text_general_code, call.selectedCrimeTypes)
     /\ CrimePeriod(call.crimeData[j], call.timeRange, <<>>, call.nowAt[j]) = period
     /\ Len(call.crimeData[j].coordinates) >= 2
     /\ pointInPolygon(call.crimeData[j].coordinates[2], call.crimeData[j].coordinates[1],
                       communityCoords)}

\* C10: the records counted for a neighborhood in a period are exactly the
\* records of that period inside it that match the selection: all of them
\* when nothing is selected, otherwise those matching at least one selected
\* category, "Violent Crime" matching the labels that contain none of the
\* four excluded substrings and any other category matching by containment.
C10_CategoryFilter ==
  \A h \in DOMAIN history :
    \A i \in DOMAIN history[h].communities :
      LET call == history[h]
          community == call.communities[i]
          communityCoords == getPolygonCoordinates(community.geometry)
          trend == call.trends[CommunityId(community)]
      IN  /\ trend.recentCount = Cardinality(MatchingIn(call, "recent", communityCoords))
          /\ trend.previousCount = Cardinality(MatchingIn(call, "previous", communityCoords))

\* C10 witness: with "Violent Crime" selected the "Aggravated Assault"
\* record of 2025 was counted and the "Burglary Residential" record of 2025
\* was not.
C10_Witness ==
  \E h \in DOMAIN history :
    /\ history[h].selectedCrimeTypes = <<ViolentCrime>>
    /\ history[h].timeRange = "1year"
    /\ history[h].crimeData[1].text_general_code = AggravatedAssault
    /\ history[h].crimeData[2].text_general_code = BurglaryResidential
    /\ history[h].trends["alpha"].recentCount = 3
    /\ \E k \in DOMAIN history[h].trends["alpha"].crimeTypes :
         history[h].trends["alpha"].crimeTypes[k].type = AggravatedAssault
    /\ \A k \in DOMAIN history[h].trends["alpha"].crimeTypes :
         history[h].trends["alpha"].crimeTypes[k].type # BurglaryResidential

\* C11: calculateSafetyTrends returns the empty mapping when an argument is
\* absent or has no features array, and no exception escapes any call.
C11_MalformedInput ==
  \A h \in DOMAIN history :
    /\ history[h].escaped = FALSE
    /\ ( \/ history[h].communitiesShape # "FeatureCollection"
         \/ history[h].crimeDataShape # "FeatureCollection" )
       => history[h].trends = NoTrends

\* C11 witness: a call whose point argument carries a features value that
\* is no array raised inside the try block and returned the empty mapping.
C11_Witness ==
  \E h \in DOMAIN history :
    /\ history[h].communities = <<Alpha, Charlie>>
    /\ history[h].crimeDataShape = "featuresNotArray"
    /\ history[h].escaped = FALSE
    /\ history[h].trends = NoTrends

\* s without the elements at the positions in bad.
Without(s, bad) ==
  LET idx == SelectSeq([i \in 1..Len(s) |-> i], LAMBDA i : i \notin bad)
  IN  [k \in 1..Len(idx) |-> s[idx[k]]]

DefectiveCommunities(call) ==
  {i \in DOMAIN call.communities : call.communities[i].defect # ""}

DefectiveCrimes(call) ==
  {i \in DOMAIN call.crimeData :
     call.crimeData[i].defect # "" \/ Len(call.crimeData[i].coordinates) < 2}

\* The mapping of the call had its defective elements been absent.
WithoutDefects(call) ==
  calculateSafetyTrends(Without(call.communities, DefectiveCommunities(call)),
                        Without(call.crimeData, DefectiveCrimes(call)),
                        call.timeRange, call.selectedCrimeTypes,
                        Without(call.nowAt, DefectiveCrimes(call)),
                        call.boundsBefore).trends

\* C12: when exactly one boundary or exactly one point record of an
\* otherwise valid input is defective, every other boundary gets the record
\* it would have got had the defective element been absent.
C12_BadElementNeverAborts ==
  \A h \in DOMAIN history :
    ( /\ history[h].communitiesShape = "FeatureCollection"
      /\ history[h].crimeDataShape = "FeatureCollection"
      /\ Cardinality(DefectiveCommunities(history[h]))
           + Cardinality(DefectiveCrimes(history[h])) = 1 )
    => \A id \in DOMAIN WithoutDefects(history[h]) :
         /\ id \in DOMAIN history[h].trends
         /\ history[h].trends[id] = WithoutDefects(history[h])[id]

\* The records of a call, dated and lying in the square, whose calendar
\* year is in years.
OfYears(call, years) ==
  {j \in DOMAIN call.crimeData :
     /\ call.crimeData[j].dispatch_date_time.text = "date"
     /\ call.crimeData[j].dispatch_date_time.y \in years}

\* C13: in mode 1year a record is recent iff its year is 2025 and previous
\* iff it is 2024; in mode 2years recent iff 2025 or 2024 and previous iff
\* 2023 or 2022; a record of another year, and every record under a token
\* that names no mode, is counted in neither period.
C13_CalendarYearModes ==
  \A h \in DOMAIN history :
    LET call == history[h]
        trend == call.trends["alpha"]
    IN  (call.communities = <<Alpha>> /\ call.timeRange # "6months")
        => IF call.timeRange = "1year"
           THEN /\ trend.recentCount = Cardinality(OfYears(call, {2025}))
                /\ trend.previousCount = Cardinality(OfYears(call, {2024}))
           ELSE IF call.timeRange = "2years"
           THEN /\ trend.recentCount = Cardinality(OfYears(call, {2025, 2024}))
                /\ trend.previousCount = Cardinality(OfYears(call, {2023, 2022}))
           ELSE trend.recentCount = 0 /\ trend.previousCount = 0

\* C13 witness: in mode 2years a record of January 2024 was counted recent
\* and a record of December 2022 previous.
C13_Witness ==
  \E h \in DOMAIN history :
    /\ history[h].timeRange = "2years"
    /\ history[h].crimeData = YearData(2024, 2022)
    /\ history[h].trends["alpha"].recentCount = 1
    /\ history[h].trends["alpha"].previousCount = 1


\* Every crime stored in some cell of an index.
Indexed(spatialIndex) == UNION {Range(spatialIndex[key]) : key \in DOMAIN spatialIndex}

\* C14: the recent bucket and the previous bucket of a call are disjoint,
\* the index built from one bucket holds no record of the other, and for
\* every neighborhood recentCount and previousCount together count no more
\* than the records lying in it, so no record is counted in both.  The
\* records of the call are pairwise different.
C14_NoCrossPeriodContamination ==
  \A h \in DOMAIN history :
    LET call == history[h]
        recent == PeriodCrimes(call.crimeData, call.timeRange, call.selectedCrimeTypes,
                               call.nowAt, "recent")
        previous == PeriodCrimes(call.crimeData, call.timeRange, call.selectedCrimeTypes,
                                 call.nowAt, "previous")
    IN  Cardinality(Range(call.crimeData)) = Len(call.crimeData)
        => /\ Range(recent) \cap Range(previous) = {}
           /\ Indexed(createSpatialIndex(recent, GridSize)) \cap Range(previous) = {}
           /\ Indexed(createSpatialIndex(previous, GridSize)) \cap Range(recent) = {}
           /\ \A i \in DOMAIN call.communities :
                CommunityId(call.communities[i]) \in DOMAIN call.trends
                => LET trend == call.trends[CommunityId(call.communities[i])]
                       communityCoords == getPolygonCoordinates(call.communities[i].geometry)
                   IN  trend.recentCount + trend.previousCount
                         <= Cardinality({j \in DOMAIN call.crimeData :
                              /\ Len(call.crimeData[j].coordinates) >= 2
                              /\ pointInPolygon(call.crimeData[j].coordinates[2],
                                                call.crimeData[j].coordinates[1],
                                                communityCoords)})

\* C14 witness: a call counted 3 records of the square as recent and a
\* fourth as previous.
C14_Witness ==
  \E h \in DOMAIN history :
    /\ Len(history[h].crimeData) = 5
    /\ history[h].timeRange = "1year"
    /\ "alpha" \in DOMAIN history[h].trends
    /\ history[h].trends["alpha"].recentCount = 3
    /\ history[h].trends["alpha"].previousCount = 1

\* The records of a call whose timestamp is missing, empty or unparseable.
Undated(call) ==
  {j \in DOMAIN call.crimeData : call.crimeData[j].dispatch_date_time.text # "date"}

\* C15: records with a missing, empty or unparseable timestamp are counted
\* in no period and in no category breakdown, and the mapping is the one
\* the call returns on the other records alone (all counts zero when there
\* are no other records).
C15_TimestampDefects ==
  \A h \in DOMAIN history :
    LET call == history[h]
        dated == Without(call.crimeData, Undated(call))
        alone == calculateSafetyTrends(call.communities, dated, call.timeRange,
                                       call.selectedCrimeTypes,
                                       Without(call.nowAt, Undated(call)),
                                       call.boundsBefore).trends
    IN  IF Len(dated) > 0
        THEN call.trends = alone
        ELSE \A id \in DOMAIN call.trends :
               /\ call.trends[id].recentCount = 0
               /\ call.trends[id].previousCount = 0
               /\ call.trends[id].crimeTypes = <<>>

\* C15 witness: a call over six records, two of them in the square without
\* a usable timestamp, counted none of the two.
C15_Witness ==
  \E h \in DOMAIN history :
    /\ Len(history[h].crimeData) = 6
    /\ Cardinality(Undated(history[h])) = 2
    /\ history[h].timeRange = "1year"
    /\ "alpha" \in DOMAIN history[h].trends
    /\ history[h].trends["alpha"].recentCount = 0
    /\ history[h].trends["alpha"].previousCount = 1

\* C16: in modes 1year and 2years a call returns the mapping the same call
\* returns when it is the first one made, whatever calls came before it.
C16_Reproducibility ==
  \A h \in DOMAIN history :
    history[h].timeRange \in {"1year", "2years"}
    => history[h].trends =
         calculateSafetyTrends(history[h].communities, history[h].crimeData,
                               history[h].timeRange, history[h].selectedCrimeTypes,
                               history[h].nowAt, <<>>).trends

\* C17: whenever a neighborhood is highlighted or clicked it is drawn red if
\* its recent count exceeds its previous count for the shown window and
\* green only if it does not; a neighborhood with recent > 0 and previous = 0
\* is not drawn green.
Highlighted(item) == item.style.weight = STYLES.highlighted.weight

C17_MapColourMeaning ==
  \A k \in DOMAIN map.communityLayersArray :
    LET item == map.communityLayersArray[k]
    IN  Highlighted(item) /\ item.communityId \in DOMAIN map.safetyTrends
        => LET shown == map.safetyTrends[item.communityId]
           IN  /\ shown.recentCount > shown.previousCount
                  => item.style.fillColor = STYLES.increased.fillColor
               /\ item.style.fillColor = STYLES.decreased.fillColor
                  => ~(shown.recentCount > shown.previousCount)

\* C18: within one call in mode 6months every record is classified against
\* the same instant, so two records with equal timestamps receive the same
\* period label in that call, even if the wall clock advances meanwhile.
PeriodLabel(call, i) ==
  getPeriodType(call.crimeData[i].dispatch_date_time, call.timeRange, call.nowAt[i])

C18_OneReferenceInstant ==
  \A h \in DOMAIN history :
    history[h].timeRange = "6months"
    => \A i, j \in DOMAIN history[h].crimeData :
         LET a == history[h].crimeData[i].dispatch_date_time
             b == history[h].crimeData[j].dispatch_date_time
         IN  a.text = "date" /\ a = b
             => PeriodLabel(history[h], i) = PeriodLabel(history[h], j)

\* C19: getPolygonCoordinates returns for a Polygon the vertices of its outer
\* ring in stored order as (lat, lon), for a MultiPolygon the concatenation
\* in member order of each member's outer ring, for a GeometryCollection the
\* concatenation in order of the extraction of each sub-geometry at any
\* depth; holes contribute nothing and a missing geometry or another type
\* yields the empty sequence.
RECURSIVE LatLon(_)
LatLon(ring) ==
  IF ring = <<>> THEN <<>>
  ELSE (IF Len(Head(ring)) >= 2 THEN <<<<Head(ring)[2], Head(ring)[1]>>>> ELSE <<>>)
       \o LatLon(Tail(ring))

RECURSIVE OuterRings(_)
OuterRings(polygons) ==
  IF polygons = <<>> THEN <<>>
  ELSE (IF Head(polygons) = <<>> THEN <<>> ELSE LatLon(Head(Head(polygons))))
       \o OuterRings(Tail(polygons))

RECURSIVE Extraction(_)
RECURSIVE Extractions(_)
Extractions(geometries) ==
  IF geometries = <<>> THEN <<>>
  ELSE Extraction(Head(geometries)) \o Extractions(Tail(geometries))

Extraction(geometry) ==
  IF geometry.type = "Polygon" THEN OuterRings(<<geometry.coordinates>>)
  ELSE IF geometry.type = "MultiPolygon" THEN OuterRings(geometry.coordinates)
  ELSE IF geometry.type = "GeometryCollection" THEN Extractions(geometry.geometries)
  ELSE <<>>

C19_GeometryExtraction ==
  probe.op = "getPolygonCoordinates" => probe.result = Extraction(probe.geometry)

C19_Witness ==
  /\ probe.op = "getPolygonCoordinates"
  /\ probe.geometry =
       GeometryCollection(<<
         GeometryCollection(<<PointGeometry,
           [type |-> "Polygon", coordinates |-> <<SquareRing, HoleRing>>,
            geometries |-> <<>>]>>),
         Polygon(TriangleRing)>>)
  /\ probe.result =
       <<<<0, 0>>, <<0, 20000>>, <<20000, 20000>>, <<20000, 0>>, <<0, 0>>,
         <<0, 30000>>, <<0, 50000>>, <<20000, 30000>>, <<0, 30000>>>>

\* C20: the query of the index built from a point list returns exactly the
\* points that have a valid two-element numeric coordinate and lie inside
\* the box (bounds inclusive), each exactly once; points without a valid
\* coordinate are skipped, and every indexed point is stored in exactly the
\* one cell keyed (floor(lon/gridSize), floor(lat/gridSize)), in insertion
\* order.
ValidCoordinate(point) ==
  Len(point.coordinates) >= 2 /\ point.coordinateKind = "number"

InsideBox(point, bounds) ==
  /\ point.coordinates[2] >= bounds.minLat /\ point.coordinates[2] <= bounds.maxLat
  /\ point.coordinates[1] >= bounds.minLon /\ point.coordinates[1] <= bounds.maxLon

Occurrences(s, x) == Cardinality({i \in DOMAIN s : s[i] = x})

FloorCell(point, gridSize) ==
  <<CHOOSE q \in -10..10 : q * gridSize <= point.coordinates[1]
                            /\ point.coordinates[1] < (q + 1) * gridSize,
    CHOOSE q \in -10..10 : q * gridSize <= point.coordinates[2]
                            /\ point.coordinates[2] < (q + 1) * gridSize>>

C20_GridExact ==
  probe.op = "createSpatialIndex"
  => LET valid == SelectSeq(probe.features, ValidCoordinate)
         cells == {FloorCell(valid[i], probe.gridSize) : i \in DOMAIN valid}
     IN  /\ \A point \in GridPoints :
              Occurrences(probe.result, point) =
                IF ValidCoordinate(point) /\ InsideBox(point, probe.bounds)
                THEN Occurrences(probe.features, point) ELSE 0
         /\ DOMAIN probe.spatialIndex = cells
         /\ \A key \in cells :
              probe.spatialIndex[key] =
                SelectSeq(valid, LAMBDA point : FloorCell(point, probe.gridSize) = key)

\* C21: the bounding-box cache is append-only and keyed by boundary
\* identifier: an entry once stored is never modified or removed, a box is
\* computed only when no entry for that identifier exists, each stored box is
\* the box of the vertices of the boundary that carries that identifier, and
\* degenerate boundaries never create an entry.
CacheAfter(h) ==
  IF h < Len(history) THEN history[h + 1].boundsBefore ELSE communityBounds

C21_BoundsCacheByIdentifier ==
  \A h \in DOMAIN history :
    LET call   == history[h]
        before == call.boundsBefore
        after  == CacheAfter(h)
        sound  == {i \in DOMAIN call.communities :
                     Len(getPolygonCoordinates(call.communities[i].geometry)) >= 3}
    IN  /\ \A key \in DOMAIN before : key \in DOMAIN after /\ after[key] = before[key]
        /\ \A key \in DOMAIN after \ DOMAIN before :
             \E i \in sound :
               /\ CommunityId(call.communities[i]) = key
               /\ after[key] = BoundsOf(getPolygonCoordinates(call.communities[i].geometry))
        /\ call.crimeData # <<>>
           => \A i \in sound : CommunityId(call.communities[i]) \in DOMAIN after

\* C22: in every Trend Record the breakdown maps each label to the number of
\* recent-period points contained in the neighborhood carrying that label:
\* the sum of its counts is recentCount minus the contained recent points
\* with an empty label, previous-period points never contribute, no key has
\* count 0 and the keys are in ascending label order.
RECURSIVE SumCounts(_)
SumCounts(crimeTypes) ==
  IF crimeTypes = <<>> THEN 0 ELSE Head(crimeTypes).count + SumCounts(Tail(crimeTypes))

C22_BreakdownOfRecentPeriod ==
  \A h \in DOMAIN history :
    \A i \in DOMAIN history[h].communities :
      LET call == history[h]
          community == call.communities[i]
          trend == call.trends[CommunityId(community)]
          recent == MatchingIn(call, "recent", getPolygonCoordinates(community.geometry))
          Labelled(label) == {j \in recent : call.crimeData[j].text_general_code = label}
      IN  /\ \A k \in DOMAIN trend.crimeTypes :
               /\ trend.crimeTypes[k].type # <<>>
               /\ trend.crimeTypes[k].count > 0
               /\ trend.crimeTypes[k].count = Cardinality(Labelled(trend.crimeTypes[k].type))
          /\ \A j \in recent :
               call.crimeData[j].text_general_code # <<>>
               => \E k \in DOMAIN trend.crimeTypes :
                    trend.crimeTypes[k].type = call.crimeData[j].text_general_code
          /\ SumCounts(trend.crimeTypes)
               = trend.recentCount - Cardinality(Labelled(<<>>))
          /\ \A k \in DOMAIN trend.crimeTypes :
               k > 1 => LabelLess(trend.crimeTypes[k - 1].type, trend.crimeTypes[k].type)

\* C22 witness: a breakdown of three labels for a neighborhood that also
\* holds an unlabelled recent point and previous-period points.
C22_Witness ==
  \E h \in DOMAIN history :
    /\ history[h].timeRange = "1year"
    /\ history[h].selectedCrimeTypes = <<>>
    /\ history[h].crimeData[5].text_general_code = <<>>
    /\ history[h].trends["alpha"].recentCount = 4
    /\ history[h].trends["alpha"].previousCount = 1
    /\ history[h].trends["alpha"].crimeTypes =
         << [type |-> AggravatedAssault, count |-> 1],
            [type |-> BurglaryResidential, count |-> 1],
            [type |-> BurglaryResidentialLower, count |-> 1] >>

\* C23: every Trend Record returned by a call with window W, the records of
\* degenerate boundaries included, has the sub-record timeRanges[W], whose
\* recent, previous and changePercent equal the record's recentCount,
\* previousCount and changePercent, and has no sub-record for a window that
\* was never requested.
C23_SubRecordOfRequestedWindow ==
  \A h \in DOMAIN history :
    \A id \in DOMAIN history[h].trends :
      LET W == history[h].timeRange
          trend == history[h].trends[id]
      IN  /\ W \in DOMAIN trend.timeRanges
          /\ trend.timeRanges[W].recent = trend.recentCount
          /\ trend.timeRanges[W].previous = trend.previousCount
          /\ trend.timeRanges[W].changePercent = trend.changePercent
          /\ \A window \in DOMAIN trend.timeRanges :
               \E g \in 1..h : history[g].timeRange = window

\* C24: for a boundary collection and a point collection that each have a
\* features list, either possibly empty, the returned mapping has exactly
\* one Trend Record for each boundary identifier of the input and no other
\* key; with zero points every boundary still gets a record of zero counts.
StructurallyValid(call) ==
  /\ call.communitiesShape = "FeatureCollection"
  /\ call.crimeDataShape = "FeatureCollection"
  /\ \A i \in DOMAIN call.communities : call.communities[i].defect = ""
  /\ \A j \in DOMAIN call.crimeData : call.crimeData[j].defect = ""

C24_OneRecordPerBoundary ==
  \A h \in DOMAIN history :
    LET call == history[h]
        ids == {CommunityId(call.communities[i]) : i \in DOMAIN call.communities}
    IN  StructurallyValid(call)
        => /\ DOMAIN call.trends = ids
           /\ \A id \in ids : call.trends[id].communityId = id
           /\ (call.crimeData = <<>>)
              => (\A id \in ids : /\ call.trends[id].recentCount = 0
                                  /\ call.trends[id].previousCount = 0)

\* C25: for a MultiPolygon boundary, or a GeometryCollection of polygons,
\* whose member outer rings are closed and pairwise disjoint, a point is
\* counted as contained iff it lies inside or on an edge of at least one
\* member ring: concatenating the rings adds no point that lies in no member
\* and drops no point that lies in one.
MemberRings(geometry) ==
  IF geometry.type = "MultiPolygon"
  THEN {LatLon(Head(geometry.coordinates[k])) : k \in DOMAIN geometry.coordinates}
  ELSE {LatLon(Head(geometry.geometries[k].coordinates)) : k \in DOMAIN geometry.geometries}

C25_UnionOfMembers ==
  probe.op = "pointInCommunity"
  => (probe.result = TRUE
      <=> \E ring \in MemberRings(probe.geometry) :
            pointInPolygon(probe.lat, probe.lon, ring))

(***************************************************************************)
(* C26.  Two searches overlap: the second was started, after the time      *)
(* range was changed, before the first had finished.  Once both have       *)
(* finished and the selection is still that of the second, the map shows   *)
(* the mapping and the window of the selected time range.                  *)
(***************************************************************************)
Position(op, id) == CHOOSE k \in DOMAIN log : log[k].op = op /\ log[k].id = id

Finished(id) == \E k \in DOMAIN log : log[k].op = "searchCompleted" /\ log[k].id = id

SearchIds == {log[k].id : k \in {j \in DOMAIN log : log[j].op = "handleSearch"}}

Overlapping(first, second) ==
  /\ first \in SearchIds /\ second \in SearchIds
  /\ Finished(first) /\ Finished(second)
  /\ Position("handleSearch", first) < Position("handleSearch", second)
  /\ Position("handleSearch", second) < Position("searchCompleted", first)
  /\ log[Position("handleSearch", first)].range
       # log[Position("handleSearch", second)].range

C26_OverlappingSearchesConverge ==
  \A first \in SearchIds, second \in SearchIds :
    ( /\ Overlapping(first, second)
      /\ pending = {}
      /\ state.currentTimeRange = log[Position("handleSearch", second)].range )
    => ( /\ map.currentTimeRange = state.currentTimeRange
         /\ state.currentTimeRange \in DOMAIN appState.safetyTrends
         /\ map.safetyTrends = appState.safetyTrends[state.currentTimeRange] )

(***************************************************************************)
(* C27.  After initialisation, every change event of the time-range        *)
(* select and every setTimeRange call, the time range of the application   *)
(* and the time range of the search control are the same member of         *)
(* {6months, 1year, 2years}.                                               *)
(***************************************************************************)
C27_TimeRangesAgree ==
  /\ state.currentTimeRange \in VALID_TIME_RANGES
  /\ appState.currentTimeRange = state.currentTimeRange

(***************************************************************************)
(* C28.  Every entry loadCrimeData serves from the cache for a valid range *)
(* was stored for that range less than 180000 ms earlier, with no          *)
(* clearCrimeDataCache since, by a load in which at least one file was     *)
(* fetched; so after a load in which every file failed the next load of    *)
(* the range is not served the empty collection of that failure.           *)
(***************************************************************************)
StoredBefore(k) ==
  {j \in 1..(k - 1) : log[j].op = "stored" /\ log[j].range = log[k].range}

C28_CacheHoldsLoadedData ==
  \A k \in DOMAIN log :
    log[k].op = "served" =>
      /\ StoredBefore(k) # {}
      /\ LET j == CHOOSE i \in StoredBefore(k) : \A x \in StoredBefore(k) : x <= i
         IN  /\ log[k].data = log[j].data
             /\ log[k].at - log[j].at < CRIME_DATA_CACHE_DURATION
             /\ \A c \in (j + 1)..(k - 1) : log[c].op # "cleared"
             /\ log[j].fetched # {}

(***************************************************************************)
(* C29.  After any sequence of clicks, highlightAreaByName,                *)
(* highlightAreaByIndex, showCommunitiesOnMap and updateMapWithTimeRange,  *)
(* no callback of updateMapWithTimeRange being due, at most one layer      *)
(* carries the highlighted style, map.currentHighlightedIndex is -1        *)
(* exactly when no layer does, and otherwise it is the index of the        *)
(* highlighted layer of communityLayersArray.                              *)
(***************************************************************************)
HighlightedLayers ==
  {k \in DOMAIN map.communityLayersArray : Highlighted(map.communityLayersArray[k])}

C29_SingleConsistentHighlight ==
  (BatchFrame \notin timers /\ HighlightTimeout \notin timers)
  => /\ Cardinality(HighlightedLayers) <= 1
     /\ map.currentHighlightedIndex = -1 <=> HighlightedLayers = {}
     /\ \A k \in HighlightedLayers :
          map.communityLayersArray[k].index = map.currentHighlightedIndex

(***************************************************************************)
(* C30.  A real-time search runs only when the search box has been idle    *)
(* for 300 ms: it is performed with the last input event, at least 300 ms  *)
(* after it, and with the text of that event.  An event followed by        *)
(* another less than 300 ms later causes no search, the last event of a    *)
(* burst causes at most one, and its search stays due until it runs or     *)
(* destroy() is called.  After destroy() no search runs and none is due.   *)
(***************************************************************************)
Entries(op) == {k \in DOMAIN log : log[k].op = op}

InputsBefore(k) == {j \in Entries("input") : j < k}

SearchesOf(event) == {k \in Entries("realTimeSearch") : log[k].id = event}

====
